---- MODULE Spec2Model ----
(***************************************************************************)
(* The sFlow datagram decoder of package sflow: the envelope reader, the  *)
(* header reader, the three dispatchers (sample, flow record, counter     *)
(* record), the sample aggregators and the top-level driver.               *)
(*                                                                         *)
(* A Go byte slice is a window [lo, hi) on the datagram `buf`; reslicing   *)
(* moves the window, copying reads the bytes under it.  A uint32 is kept   *)
(* as a natural number; the first byte of every 32-bit field of the inputs *)
(* is below 128, so that every big-endian 32-bit value stays below 2^31    *)
(* and every length conversion uint32(len(data)) is the identity.          *)
(*                                                                         *)
(* Package log: the logger contexts (LoggerNewContext, LoggerSetLevel,     *)
(* LoggerAddHandler, AddToLogContext, LoggerNewRequest), the loggers built *)
(* from them, and the default backend behind SetProcessName.               *)
(***************************************************************************)
EXTENDS Integers, Sequences, FiniteSets, TLC

VARIABLES
    fn,       \* the exported operation that is invoked on buf
    buf,      \* the input bytes
    df0,      \* the receiver *DataFormat of a direct dispatcher call
    pc,       \* "call" | "parsed" | "samples" | "done"
    h,        \* the receiver *Header
    data,     \* ParseSamples' data
    i,        \* ParseSamples' loop counter i
    dfs,      \* ParseSamples' dfs
    samples,  \* ParseSamples' samples
    iters,    \* the loop iterations run: each one's level and its data at the loop head
    ret,      \* what the invoked operation returned
    ctxs,     \* package log: the contexts the program has made, context.Background() first
    made,     \* how each context was made: the level set and the handlers added on its way
    states,   \* the heap of *loggerState
    levels,   \* the heap of zap.AtomicLevel cells
    emitted,  \* what the last logging call did
    ProcessName,      \* var ProcessName
    defaultCoreOnce,  \* var defaultCoreOnce sync.Once
    defaultCore,      \* var defaultCore zapcore.Core
    gs,       \* the goroutines creating logger contexts
    setter    \* the goroutine calling SetProcessName

sflowVars == <<fn, buf, df0, pc, h, data, i, dfs, samples, iters, ret>>

logVars == <<ctxs, made, states, levels, emitted>>

onceVars == <<ProcessName, defaultCoreOnce, defaultCore, gs, setter>>

vars == <<sflowVars, logVars, onceVars>>

-----------------------------------------------------------------------------
(* Errors, slices and integers                                             *)

ErrNil == "nil"

ErrTooShort == "sflow: data is too short"

ErrOutOfBounds == "sflow: out of bounds"

\* A slice of buf: the bytes buf[lo+1 .. hi] (offsets lo .. hi-1).
Slice(lo, hi) == [nil |-> FALSE, lo |-> lo, hi |-> hi]

\* Go's nil slice.
NilSlice == [nil |-> TRUE, lo |-> 0, hi |-> 0]

\* len(s)
SLen(s) == s.hi - s.lo

\* s[a:b]
Sub(s, a, b) == Slice(s.lo + a, s.lo + b)

\* s[a:]
From(s, a) == Slice(s.lo + a, s.hi)

\* The bytes of s[a:b], as a value (what copy and make+copy produce).
Bytes(s, a, b) == [k \in 1..(b - a) |-> buf[s.lo + a + k]]

\* copy(dst, src) into a zeroed array of n bytes: min(n, len(src)) bytes move.
CopyArray(n, src) == [k \in 1..n |-> IF k <= Len(src) THEN src[k] ELSE 0]

\* binary.BigEndian.Uint32(s[a:a+4])
Uint32(s, a) ==
    buf[s.lo + a + 1] * 16777216 + buf[s.lo + a + 2] * 65536
        + buf[s.lo + a + 3] * 256 + buf[s.lo + a + 4]

\* data[a]
Byte(s, a) == buf[s.lo + a + 1]

\* binary.BigEndian.Uint16(s[a:a+2])
Uint16(s, a) == buf[s.lo + a + 1] * 256 + buf[s.lo + a + 2]

-----------------------------------------------------------------------------
(* Type codes                                                              *)

FlowSampleType == 1

CounterSamplesType == 2

FlowSampleExpandedType == 3

CountersSampleExpandedType == 4

SampledUnknownType == 0

SampledHeaderType == 1

SampledEthernetType == 2

SampledIPV4Type == 3

SampledIPV6Type == 4

IfCountersType == 1

EthernetCountersType == 2

TokenringCountersType == 3

VGCountersType == 4

VlanCountersType == 5

ProcessorType == 1001

-----------------------------------------------------------------------------
(* Header and envelope                                                     *)

ZeroHeader ==
    [Version |-> 0, AddressType |-> 0, AgentAddress |-> <<0, 0, 0, 0>>,
     SubAgentID |-> 0, SequenceNumber |-> 0, SysUptime |-> 0, NumSamples |-> 0]

\* func (h *Header) Parse(data []byte) ([]byte, error), on a zero Header
Header_Parse(d) ==
    IF SLen(d) < 28
    THEN [rest |-> NilSlice, err |-> ErrTooShort, h |-> ZeroHeader]
    ELSE [rest |-> From(d, 28), err |-> ErrNil,
          h |-> [Version |-> Uint32(d, 0),
                 AddressType |-> Uint32(d, 4),
                 AgentAddress |-> CopyArray(4, Bytes(d, 8, 12)),
                 SubAgentID |-> Uint32(d, 12),
                 SequenceNumber |-> Uint32(d, 16),
                 SysUptime |-> Uint32(d, 20),
                 NumSamples |-> Uint32(d, 24)]]

ZeroDataFormat == [Format |-> 0, Length |-> 0]

\* DataFormat.Parse comparing with <= : a body that exactly fills the buffer
\* is refused.
DataFormat_Parse_Strict(d) ==
    IF SLen(d) < 8
    THEN [rest |-> NilSlice, err |-> ErrTooShort,
          df |-> [Format |-> 0, Length |-> 0]]
    ELSE IF SLen(From(d, 8)) <= Uint32(d, 4)
         THEN [rest |-> NilSlice, err |-> ErrOutOfBounds,
               df |-> [Format |-> Uint32(d, 0), Length |-> Uint32(d, 4)]]
         ELSE [rest |-> From(d, 8), err |-> ErrNil,
               df |-> [Format |-> Uint32(d, 0), Length |-> Uint32(d, 4)]]

\* func (h *DataFormat) Parse(data []byte) ([]byte, error), on a zero
\* DataFormat.  The fields are assigned before the bounds check.
DataFormat_Parse(d) ==
    IF SLen(d) < 8
    THEN [rest |-> NilSlice, err |-> ErrTooShort, df |-> ZeroDataFormat]
    ELSE LET df == [Format |-> Uint32(d, 0), Length |-> Uint32(d, 4)]
         IN  IF SLen(From(d, 8)) < df.Length
             THEN [rest |-> NilSlice, err |-> ErrOutOfBounds, df |-> df]
             ELSE [rest |-> From(d, 8), err |-> ErrNil, df |-> df]

-----------------------------------------------------------------------------
(* Flow records                                                            *)

\* The nil interface value of Flow, Counter and Sample.
NilValue == [kind |-> "nil"]

\* func (sh *SampledHeader) Parse(data []byte) error
SampledHeader_Parse(d) ==
    LET zero == [kind |-> "SampledHeader", Protocol |-> 0, FrameLength |-> 0,
                 PayloadRemoved |-> 0, Header |-> <<>>, body |-> d]
    IN  IF SLen(d) < 16
        THEN [err |-> ErrTooShort, val |-> zero]
        ELSE LET headerlength == Uint32(d, 12)
                 set == [zero EXCEPT !.Protocol = Uint32(d, 0),
                                     !.FrameLength = Uint32(d, 4),
                                     !.PayloadRemoved = Uint32(d, 8)]
             IN  IF SLen(From(d, 16)) < headerlength
                 THEN [err |-> ErrOutOfBounds, val |-> set]
                 ELSE [err |-> ErrNil,
                       val |-> [set EXCEPT
                                  !.Header = Bytes(d, 16, 16 + headerlength)]]

\* func (se *SampledEthernet) Parse(data []byte) error
SampledEthernet_Parse(d) ==
    LET zero == [kind |-> "SampledEthernet", Length |-> 0,
                 SrcMac |-> <<0, 0, 0, 0, 0, 0>>,
                 DstMac |-> <<0, 0, 0, 0, 0, 0>>, Type |-> 0, body |-> d]
    IN  IF SLen(d) < 20
        THEN [err |-> ErrTooShort, val |-> zero]
        ELSE [err |-> ErrNil,
              val |-> [zero EXCEPT !.Length = Uint32(d, 0),
                                   !.SrcMac = CopyArray(6, Bytes(d, 4, 10)),
                                   !.DstMac = CopyArray(6, Bytes(d, 10, 16)),
                                   !.Type = Uint32(d, 16)]]

\* func (u *SampledUnknown) Parse(data []byte) error, on
\* &SampledUnknown{Type: type}
SampledUnknown_Parse(type, d) ==
    [err |-> ErrNil,
     val |-> [kind |-> "SampledUnknown", Type |-> type,
              Data |-> CopyArray(SLen(d), Bytes(d, 0, SLen(d))), body |-> d]]

\* SampledIPV4.Parse comparing with <= : a body of exactly 32 bytes is refused.
SampledIPV4_Parse_OffByOne(d) ==
    IF SLen(d) <= 32
    THEN [err |-> ErrTooShort,
          val |-> [kind |-> "SampledIPV4", Length |-> 0, Protocol |-> 0,
                   SrcIP |-> <<0, 0, 0, 0>>, DstIP |-> <<0, 0, 0, 0>>,
                   SrcPort |-> 0, DstPort |-> 0, TCPFlags |-> 0, ToS |-> 0,
                   body |-> d]]
    ELSE [err |-> ErrNil,
          val |-> [kind |-> "SampledIPV4", Length |-> Uint32(d, 0),
                   Protocol |-> Uint32(d, 4),
                   SrcIP |-> CopyArray(4, Bytes(d, 8, 12)),
                   DstIP |-> CopyArray(4, Bytes(d, 12, 16)),
                   SrcPort |-> Uint32(d, 16), DstPort |-> Uint32(d, 20),
                   TCPFlags |-> Uint32(d, 24), ToS |-> Uint32(d, 28),
                   body |-> d]]

\* func (si *SampledIPV4) Parse(data []byte) error
SampledIPV4_Parse(d) ==
    LET zero == [kind |-> "SampledIPV4", Length |-> 0, Protocol |-> 0,
                 SrcIP |-> <<0, 0, 0, 0>>, DstIP |-> <<0, 0, 0, 0>>,
                 SrcPort |-> 0, DstPort |-> 0, TCPFlags |-> 0, ToS |-> 0,
                 body |-> d]
    IN  IF SLen(d) < 32
        THEN [err |-> ErrTooShort, val |-> zero]
        ELSE [err |-> ErrNil,
              val |-> [zero EXCEPT !.Length = Uint32(d, 0),
                                   !.Protocol = Uint32(d, 4),
                                   !.SrcIP = CopyArray(4, Bytes(d, 8, 12)),
                                   !.DstIP = CopyArray(4, Bytes(d, 12, 16)),
                                   !.SrcPort = Uint32(d, 16),
                                   !.DstPort = Uint32(d, 20),
                                   !.TCPFlags = Uint32(d, 24),
                                   !.ToS = Uint32(d, 28)]]

\* func (si *SampledIPV6) Parse(data []byte) error
\* The destination address is copied from data[12:40]: the 16-byte array
\* takes the first 16 of those 28 bytes.
SampledIPV6_Parse(d) ==
    LET zero == [kind |-> "SampledIPV6", Length |-> 0, Protocol |-> 0,
                 SrcIP |-> [k \in 1..16 |-> 0], DstIP |-> [k \in 1..16 |-> 0],
                 SrcPort |-> 0, DstPort |-> 0, TCPFlags |-> 0, ToS |-> 0,
                 body |-> d]
    IN  IF SLen(d) < 56
        THEN [err |-> ErrTooShort, val |-> zero]
        ELSE [err |-> ErrNil,
              val |-> [zero EXCEPT !.Length = Uint32(d, 0),
                                   !.Protocol = Uint32(d, 4),
                                   !.SrcIP = CopyArray(16, Bytes(d, 8, 24)),
                                   !.DstIP = CopyArray(16, Bytes(d, 12, 40)),
                                   !.SrcPort = Uint32(d, 40),
                                   !.DstPort = Uint32(d, 44),
                                   !.TCPFlags = Uint32(d, 48),
                                   !.ToS = Uint32(d, 52)]]

\* The transport ports of ParseFromIPHeader: ihl is int((data[0] & 0xF) * 4).
PortsFromIPHeader(set, d, ihl) ==
    IF ihl < 20
    THEN [err |-> ErrOutOfBounds, val |-> set]
    ELSE IF SLen(d) < ihl + 4
         THEN [err |-> ErrOutOfBounds, val |-> set]
         ELSE [err |-> ErrNil,
               val |-> [set EXCEPT !.SrcPort = Uint16(d, ihl),
                                   !.DstPort = Uint16(d, ihl + 2)]]

\* The addresses and the protocol of ParseFromIPHeader, stored before the
\* protocol is looked at.
AddressesFromIPHeader(set, d) ==
    IF set.Protocol = 6 \/ set.Protocol = 17
    THEN PortsFromIPHeader(set, d, ((Byte(d, 0) % 16) * 4) % 256)
    ELSE [err |-> ErrNil, val |-> set]

\* func (si *SampledIPV4) ParseFromIPHeader(data []byte) error, on
\* &SampledIPV4{}
SampledIPV4_ParseFromIPHeader(d) ==
    IF SLen(d) < 20
    THEN [err |-> ErrTooShort,
          val |-> [kind |-> "SampledIPV4", Length |-> 0, Protocol |-> 0,
                   SrcIP |-> <<0, 0, 0, 0>>, DstIP |-> <<0, 0, 0, 0>>,
                   SrcPort |-> 0, DstPort |-> 0, TCPFlags |-> 0, ToS |-> 0,
                   body |-> d]]
    ELSE AddressesFromIPHeader(
             [kind |-> "SampledIPV4", Length |-> 0, Protocol |-> Byte(d, 9),
              SrcIP |-> CopyArray(4, Bytes(d, 12, 16)),
              DstIP |-> CopyArray(4, Bytes(d, 16, 20)),
              SrcPort |-> 0, DstPort |-> 0, TCPFlags |-> 0, ToS |-> 0,
              body |-> d],
             d)

\* sh.Header: the bytes Parse copied out of data[16:16+headerlength], read
\* here in place.
HeaderSlice(sh) == Sub(sh.body, 16, 16 + Len(sh.Header))

\* if err := sampleIPv4.ParseFromIPHeader(...); err != nil { return nil }
NilOnError(r) == IF r.err # ErrNil THEN NilValue ELSE r.val

\* The end of case 1 of SampledIPv4, once ethernetHeaderSize is known.
IPv4AfterEthernet(header, ethernetHeaderSize) ==
    IF SLen(header) < ethernetHeaderSize
    THEN NilValue
    ELSE NilOnError(SampledIPV4_ParseFromIPHeader(From(header, ethernetHeaderSize)))

\* SampledIPv4 taking every frame as untagged.
SampledHeader_SampledIPv4_IgnoresTags(sh) ==
    CASE sh.Protocol = 1 ->
             IF SLen(HeaderSlice(sh)) < 14
             THEN NilValue
             ELSE IPv4AfterEthernet(HeaderSlice(sh), 14)
      [] sh.Protocol = 11 ->
             NilOnError(SampledIPV4_ParseFromIPHeader(HeaderSlice(sh)))
      [] OTHER -> NilValue

\* func (sh *SampledHeader) SampledIPv4() *SampledIPV4
\* 33024 is 0x8100 (802.1Q) and 34984 is 0x88a8 (QinQ).
SampledHeader_SampledIPv4(sh) ==
    CASE sh.Protocol = 1 ->
             IF SLen(HeaderSlice(sh)) < 14
             THEN NilValue
             ELSE CASE Uint16(HeaderSlice(sh), 12) = 33024 ->
                           IF SLen(HeaderSlice(sh)) < 18
                           THEN NilValue
                           ELSE IPv4AfterEthernet(HeaderSlice(sh), 14 + 4)
                    [] Uint16(HeaderSlice(sh), 12) = 34984 ->
                           IF SLen(HeaderSlice(sh)) < 22
                           THEN NilValue
                           ELSE IPv4AfterEthernet(HeaderSlice(sh), 14 + 8)
                    [] OTHER -> IPv4AfterEthernet(HeaderSlice(sh), 14)
      [] sh.Protocol = 11 ->
             NilOnError(SampledIPV4_ParseFromIPHeader(HeaderSlice(sh)))
      [] OTHER -> NilValue

\* FlowType() of a flow record: each type returns a constant, SampledUnknown
\* its Type; SampledIPV6 returns SampledIPV4Type.
FlowType(v) ==
    CASE v.kind = "SampledHeader" -> SampledHeaderType
      [] v.kind = "SampledEthernet" -> SampledEthernetType
      [] v.kind = "SampledUnknown" -> v.Type
      [] v.kind = "SampledIPV4" -> SampledIPV4Type
      [] v.kind = "SampledIPV6" -> SampledIPV4Type

\* The return of a dispatcher after value.Parse(body) gave r: the error alone,
\* or the value with the rest.
DispatchReturn(r, rest) ==
    IF r.err # ErrNil
    THEN [val |-> NilValue, rest |-> NilSlice, err |-> r.err]
    ELSE [val |-> r.val, rest |-> rest, err |-> ErrNil]

\* ParseFlow handing the decoder data instead of data[:df.Length].
DataFormat_ParseFlow_WholeData(df, d) ==
    IF SLen(d) < df.Length
    THEN [val |-> NilValue, rest |-> NilSlice, err |-> ErrOutOfBounds]
    ELSE DispatchReturn(
             CASE df.Format = SampledHeaderType -> SampledHeader_Parse(d)
               [] df.Format = SampledIPV4Type -> SampledIPV4_Parse(d)
               [] df.Format = SampledIPV6Type -> SampledIPV6_Parse(d)
               [] OTHER -> SampledUnknown_Parse(df.Format, d),
             From(d, df.Length))

\* func (df *DataFormat) ParseFlow(data []byte) (Flow, []byte, error)
\* Every arm of the switch assigns flow, so the flow == nil return is never
\* taken.
DataFormat_ParseFlow(df, d) ==
    IF SLen(d) < df.Length
    THEN [val |-> NilValue, rest |-> NilSlice, err |-> ErrOutOfBounds]
    ELSE DispatchReturn(
             CASE df.Format = SampledHeaderType ->
                      SampledHeader_Parse(Sub(d, 0, df.Length))
               [] df.Format = SampledIPV4Type ->
                      SampledIPV4_Parse(Sub(d, 0, df.Length))
               [] df.Format = SampledIPV6Type ->
                      SampledIPV6_Parse(Sub(d, 0, df.Length))
               [] OTHER -> SampledUnknown_Parse(df.Format, Sub(d, 0, df.Length)),
             From(d, df.Length))

-----------------------------------------------------------------------------
(* Counter records.  The record types themselves (IfCounter ... Processor, *)
(* CounterUnknown) are described by the specification only: a recognized   *)
(* code decodes one fixed-width block, the fallback keeps code and body.   *)

\* The width of the fixed counter block of a recognized counter code.
CounterBlockLen(code) ==
    CASE code = IfCountersType -> 88
      [] code = EthernetCountersType -> 52
      [] code = TokenringCountersType -> 72
      [] code = VGCountersType -> 80
      [] code = VlanCountersType -> 28
      [] code = ProcessorType -> 28

CounterKind(code) ==
    CASE code = IfCountersType -> "IfCounter"
      [] code = EthernetCountersType -> "EthernetCounter"
      [] code = TokenringCountersType -> "TokenringCounters"
      [] code = VGCountersType -> "VGCounters"
      [] code = VlanCountersType -> "VlanCounters"
      [] code = ProcessorType -> "Processor"

\* Parse of a recognized counter record: TooShort below the block width.
Counter_Parse(code, d) ==
    IF SLen(d) < CounterBlockLen(code)
    THEN [err |-> ErrTooShort, val |-> NilValue]
    ELSE [err |-> ErrNil,
          val |-> [kind |-> CounterKind(code), Type |-> code,
                   Data |-> Bytes(d, 0, CounterBlockLen(code)), body |-> d]]

\* Parse of &CounterUnknown{Type: type}: never fails.
CounterUnknown_Parse(type, d) ==
    [err |-> ErrNil,
     val |-> [kind |-> "CounterUnknown", Type |-> type,
              Data |-> Bytes(d, 0, SLen(d)), body |-> d]]

RecognizedCounter(code) ==
    code \in {IfCountersType, EthernetCountersType, TokenringCountersType,
              VGCountersType, VlanCountersType, ProcessorType}

\* func (df *DataFormat) ParseCounter(data []byte) (Counter, []byte, error)
\* Every arm of the switch assigns counter, so the counter == nil return is
\* never taken.
DataFormat_ParseCounter(df, d) ==
    IF SLen(d) < df.Length
    THEN [val |-> NilValue, rest |-> NilSlice, err |-> ErrOutOfBounds]
    ELSE DispatchReturn(
             IF RecognizedCounter(df.Format)
             THEN Counter_Parse(df.Format, Sub(d, 0, df.Length))
             ELSE CounterUnknown_Parse(df.Format, Sub(d, 0, df.Length)),
             From(d, df.Length))

-----------------------------------------------------------------------------
(* Sample aggregators.  A loop returns the receiver's Records and, as a    *)
(* record of its run, `heads`: the slice data held at the head of each     *)
(* iteration it entered.                                                   *)

RECURSIVE CounterRecordsLoop(_, _, _, _, _)
RECURSIVE CounterRecordsAppend(_, _, _, _, _)
RECURSIVE CounterRecordsDispatch(_, _, _, _, _)

\* for i := uint32(0); i < records; i++ { ... } return nil
CounterRecordsLoop(k, records, d, Records, heads) ==
    IF ~(k < records)
    THEN [err |-> ErrNil, Records |-> Records, heads |-> heads]
    ELSE CounterRecordsDispatch(k, records, DataFormat_Parse(d), Records,
                                Append(heads, d))

\* data, err = df.Parse(data) gave e; counter, data, err = df.ParseCounter(data)
CounterRecordsDispatch(k, records, e, Records, heads) ==
    IF e.err # ErrNil
    THEN [err |-> e.err, Records |-> Records, heads |-> heads]
    ELSE CounterRecordsAppend(k, records, DataFormat_ParseCounter(e.df, e.rest),
                              Records, heads)

\* CounterRecordsAppend appending recognized counters only.
CounterRecordsAppend_DropsUnknown(k, records, c, Records, heads) ==
    IF c.err # ErrNil
    THEN [err |-> c.err, Records |-> Records, heads |-> heads]
    ELSE CounterRecordsLoop(k + 1, records, c.rest,
                            IF c.val.kind = "CounterUnknown"
                            THEN Records
                            ELSE Append(Records, c.val),
                            heads)

\* df.ParseCounter gave c; cs.Records = append(cs.Records, counter)
CounterRecordsAppend(k, records, c, Records, heads) ==
    IF c.err # ErrNil
    THEN [err |-> c.err, Records |-> Records, heads |-> heads]
    ELSE CounterRecordsLoop(k + 1, records, c.rest, Append(Records, c.val),
                            heads)

\* What a sample's Parse leaves: its error, the receiver and the loop's heads.
SampleParsed(set, l) ==
    [err |-> l.err, val |-> [set EXCEPT !.Records = l.Records],
     heads |-> l.heads]

\* func (cs *CounterSamples) Parse(data []byte) error, on &CounterSamples{}
CounterSamples_Parse(d) ==
    IF SLen(d) < 12
    THEN [err |-> ErrTooShort,
          val |-> [kind |-> "CounterSamples", SequenceNumber |-> 0,
                   SourceId |-> 0, Records |-> <<>>, body |-> d],
          heads |-> <<>>]
    ELSE SampleParsed(
             [kind |-> "CounterSamples", SequenceNumber |-> Uint32(d, 0),
              SourceId |-> Uint32(d, 4), Records |-> <<>>, body |-> d],
             CounterRecordsLoop(0, Uint32(d, 8), From(d, 12), <<>>, <<>>))

\* func (cs *CountersSampleExpanded) Parse(data []byte) error, on
\* &CountersSampleExpanded{}
CountersSampleExpanded_Parse(d) ==
    IF SLen(d) < 16
    THEN [err |-> ErrTooShort,
          val |-> [kind |-> "CountersSampleExpanded", SequenceNumber |-> 0,
                   SourceId |-> [Type |-> 0, Index |-> 0], Records |-> <<>>,
                   body |-> d],
          heads |-> <<>>]
    ELSE SampleParsed(
             [kind |-> "CountersSampleExpanded",
              SequenceNumber |-> Uint32(d, 0),
              SourceId |-> [Type |-> Uint32(d, 4), Index |-> Uint32(d, 8)],
              Records |-> <<>>, body |-> d],
             CounterRecordsLoop(0, Uint32(d, 12), From(d, 16), <<>>, <<>>))

\* The flow-record loop of FlowSample and FlowSampleExpanded: the same
\* repetition, dispatching through ParseFlow.
RECURSIVE FlowRecordsLoop(_, _, _, _, _)
RECURSIVE FlowRecordsAppend(_, _, _, _, _)
RECURSIVE FlowRecordsDispatch(_, _, _, _, _)

FlowRecordsLoop(k, records, d, Records, heads) ==
    IF ~(k < records)
    THEN [err |-> ErrNil, Records |-> Records, heads |-> heads]
    ELSE FlowRecordsDispatch(k, records, DataFormat_Parse(d), Records,
                             Append(heads, d))

FlowRecordsDispatch(k, records, e, Records, heads) ==
    IF e.err # ErrNil
    THEN [err |-> e.err, Records |-> Records, heads |-> heads]
    ELSE FlowRecordsAppend(k, records, DataFormat_ParseFlow(e.df, e.rest),
                           Records, heads)

FlowRecordsAppend(k, records, f, Records, heads) ==
    IF f.err # ErrNil
    THEN [err |-> f.err, Records |-> Records, heads |-> heads]
    ELSE FlowRecordsLoop(k + 1, records, f.rest, Append(Records, f.val), heads)

\* FlowSample.Parse: sequence number, source id, record count, records.
FlowSample_Parse(d) ==
    IF SLen(d) < 12
    THEN [err |-> ErrTooShort,
          val |-> [kind |-> "FlowSample", SequenceNumber |-> 0,
                   SourceId |-> 0, Records |-> <<>>, body |-> d],
          heads |-> <<>>]
    ELSE SampleParsed(
             [kind |-> "FlowSample", SequenceNumber |-> Uint32(d, 0),
              SourceId |-> Uint32(d, 4), Records |-> <<>>, body |-> d],
             FlowRecordsLoop(0, Uint32(d, 8), From(d, 12), <<>>, <<>>))

\* FlowSampleExpanded.Parse: the source id is a {type, index} pair.
FlowSampleExpanded_Parse(d) ==
    IF SLen(d) < 16
    THEN [err |-> ErrTooShort,
          val |-> [kind |-> "FlowSampleExpanded", SequenceNumber |-> 0,
                   SourceId |-> [Type |-> 0, Index |-> 0], Records |-> <<>>,
                   body |-> d],
          heads |-> <<>>]
    ELSE SampleParsed(
             [kind |-> "FlowSampleExpanded", SequenceNumber |-> Uint32(d, 0),
              SourceId |-> [Type |-> Uint32(d, 4), Index |-> Uint32(d, 8)],
              Records |-> <<>>, body |-> d],
             FlowRecordsLoop(0, Uint32(d, 12), From(d, 16), <<>>, <<>>))

\* The return of ParseSample after sample.Parse(body) gave r.
SampleReturn(r, rest) ==
    IF r.err # ErrNil
    THEN [val |-> NilValue, rest |-> NilSlice, err |-> r.err, heads |-> r.heads]
    ELSE [val |-> r.val, rest |-> rest, err |-> ErrNil, heads |-> r.heads]

\* ParseSample returning data whole, not data[df.Length:], for a skipped code.
DataFormat_ParseSample_NoAdvance(df, d) ==
    IF SLen(d) < df.Length
    THEN [val |-> NilValue, rest |-> NilSlice, err |-> ErrOutOfBounds,
          heads |-> <<>>]
    ELSE IF df.Format \notin {CounterSamplesType, FlowSampleType,
                              FlowSampleExpandedType}
         THEN [val |-> NilValue, rest |-> d, err |-> ErrNil, heads |-> <<>>]
         ELSE SampleReturn(
                  CASE df.Format = CounterSamplesType ->
                           CounterSamples_Parse(Sub(d, 0, df.Length))
                    [] df.Format = FlowSampleType ->
                           FlowSample_Parse(Sub(d, 0, df.Length))
                    [] df.Format = FlowSampleExpandedType ->
                           FlowSampleExpanded_Parse(Sub(d, 0, df.Length)),
                  From(d, df.Length))

\* ParseSample handing the sample decoder data instead of data[:df.Length].
DataFormat_ParseSample_WholeData(df, d) ==
    IF SLen(d) < df.Length
    THEN [val |-> NilValue, rest |-> NilSlice, err |-> ErrOutOfBounds,
          heads |-> <<>>]
    ELSE IF df.Format \notin {CounterSamplesType, FlowSampleType,
                              FlowSampleExpandedType}
         THEN [val |-> NilValue, rest |-> From(d, df.Length), err |-> ErrNil,
               heads |-> <<>>]
         ELSE SampleReturn(
                  CASE df.Format = CounterSamplesType -> CounterSamples_Parse(d)
                    [] df.Format = FlowSampleType -> FlowSample_Parse(d)
                    [] df.Format = FlowSampleExpandedType ->
                           FlowSampleExpanded_Parse(d),
                  From(d, df.Length))

\* func (df *DataFormat) ParseSample(data []byte) (Sample, []byte, error)
\* The switch has no default: any other code leaves sample nil.
DataFormat_ParseSample(df, d) ==
    IF SLen(d) < df.Length
    THEN [val |-> NilValue, rest |-> NilSlice, err |-> ErrOutOfBounds,
          heads |-> <<>>]
    ELSE IF df.Format \notin {CounterSamplesType, FlowSampleType,
                              FlowSampleExpandedType}
         THEN [val |-> NilValue, rest |-> From(d, df.Length), err |-> ErrNil,
               heads |-> <<>>]
         ELSE SampleReturn(
                  CASE df.Format = CounterSamplesType ->
                           CounterSamples_Parse(Sub(d, 0, df.Length))
                    [] df.Format = FlowSampleType ->
                           FlowSample_Parse(Sub(d, 0, df.Length))
                    [] df.Format = FlowSampleExpandedType ->
                           FlowSampleExpanded_Parse(Sub(d, 0, df.Length)),
                  From(d, df.Length))

-----------------------------------------------------------------------------
(* Inputs: the byte strings the operations are invoked on.                 *)

\* The most records a generated sample holds.
MaxRecords == 2

\* The most bytes cut from the end of a generated datagram or sample body.
MaxCut == 1

\* The most bytes that follow a generated IPv4 header.
MaxTrail == 8

\* The longest filler buffer handed to a fixed-prefix decoder.
MaxLen == 58

\* The longest filler body behind a generated envelope.
MaxBody == 3

\* A declared count no buffer can hold.
Huge == 16777216

\* The four big-endian bytes of n.
Enc32(n) ==
    <<(n \div 16777216) % 256, (n \div 65536) % 256, (n \div 256) % 256, n % 256>>

\* n filler bytes, pairwise distinct over any 128 positions.
Fill(n, salt) == [k \in 1..n |-> (salt + 5 * k) % 128]

MinOf(a, b) == IF a < b THEN a ELSE b

RECURSIVE Flatten(_)
Flatten(ss) == IF ss = <<>> THEN <<>> ELSE Head(ss) \o Flatten(Tail(ss))

CutEnd(b, c) == SubSeq(b, 1, IF Len(b) < c THEN 0 ELSE Len(b) - c)

\* An envelope declaring decl bytes, followed by pay filler bytes.
Rec(code, decl, pay, salt) == Enc32(code) \o Enc32(decl) \o Fill(pay, salt)

\* Counter records: unknown and empty; unknown with an odd length; a whole
\* vlan block; a vlan block cut short; a length running past its payload.
CounterRecs ==
    <<Rec(0, 0, 0, 1), Rec(9, 5, 5, 2), Rec(VlanCountersType, 28, 28, 3),
      Rec(VlanCountersType, 4, 4, 4), Rec(7, 12, 4, 5)>>

\* A sampled-header body capturing n bytes.
HeaderBody(declared, n) ==
    Enc32(1) \o Enc32(64) \o Enc32(0) \o Enc32(declared) \o Fill(n, 6)

\* Flow records: sampled-ethernet (no decoder is dispatched for it); a whole
\* sampled-header; a sampled-ipv4 cut short; a length running past its payload;
\* a sampled-header whose captured length runs past its record.
FlowRecs ==
    <<Rec(SampledEthernetType, 20, 20, 7),
      Enc32(SampledHeaderType) \o Enc32(20) \o HeaderBody(4, 4),
      Rec(SampledIPV4Type, 8, 8, 8), Rec(6, 12, 4, 9),
      Enc32(SampledHeaderType) \o Enc32(20) \o HeaderBody(6, 4)>>

\* The body of a sample: sequence number, source id (4 or 8 bytes), the
\* declared record count, the records.
SampleBody(expanded, count, recs) ==
    Enc32(7) \o (IF expanded THEN Enc32(2) \o Enc32(3) ELSE Enc32(5))
        \o Enc32(count) \o Flatten(recs)

Envelope(code, body) == Enc32(code) \o Enc32(Len(body)) \o body

SeqsUpTo(S, n) == UNION {[1..m -> S] : m \in 0..n}

\* Counter-sample bodies: up to MaxRecords records, the declared count equal
\* to their number or one more.
CounterBodies(expanded) ==
    {SampleBody(expanded, Len(r) + more, [k \in 1..Len(r) |-> CounterRecs[r[k]]]) :
        r \in SeqsUpTo(1..4, MaxRecords) \cup {<<5>>, <<1, 5>>}, more \in 0..1}

FlowBodies(expanded) ==
    {SampleBody(expanded, Len(r) + more, [k \in 1..Len(r) |-> FlowRecs[r[k]]]) :
        r \in SeqsUpTo(1..3, MaxRecords) \cup {<<4>>, <<1, 4>>, <<5, 1>>},
        more \in 0..1}

\* A body declaring Huge records and holding two empty ones.
OverCounted(expanded) ==
    SampleBody(expanded, Huge, <<CounterRecs[1], CounterRecs[1]>>)

\* The samples a datagram is built around.
RichSamples ==
    {Envelope(CounterSamplesType, b) : b \in CounterBodies(FALSE)}
        \cup {Envelope(FlowSampleType, b) : b \in FlowBodies(FALSE)}
        \cup {Envelope(FlowSampleExpandedType, b) : b \in FlowBodies(TRUE)}
        \cup {Envelope(CountersSampleExpandedType, b) :
                b \in {SampleBody(TRUE, 1, <<CounterRecs[2]>>), Fill(3, 10)}}
        \cup {Envelope(CounterSamplesType, OverCounted(FALSE)),
              Envelope(FlowSampleExpandedType, OverCounted(TRUE))}
        \cup {Envelope(0, <<>>), Envelope(7, Fill(5, 11)),
              Envelope(CounterSamplesType, Fill(4, 12)),
              Envelope(FlowSampleExpandedType, Fill(13, 13))}

\* The samples before and after it: none, one that is skipped, one that is
\* decoded.
Neighbours ==
    {<<>>, Envelope(9, Fill(4, 14)),
     Envelope(CounterSamplesType, SampleBody(FALSE, 1, <<CounterRecs[2]>>))}

DatagramHeader(numSamples) ==
    Enc32(5) \o Enc32(1) \o <<10, 0, 0, 1>> \o Enc32(0) \o Enc32(42)
        \o Enc32(1000) \o Enc32(numSamples)

Present(pre, post) == 1 + (IF pre = <<>> THEN 0 ELSE 1) + (IF post = <<>> THEN 0 ELSE 1)

Datagrams ==
    {CutEnd(DatagramHeader(n) \o pre \o s \o post, c) :
        <<pre, s, post, n, c>> \in
            {t \in Neighbours \X RichSamples \X Neighbours
                    \X {0, 1, 2, 3, 4, Huge} \X (0..MaxCut) :
                t[4] \in {0, Present(t[1], t[3]), Present(t[1], t[3]) + 1, Huge}}}
        \cup {CutEnd(DatagramHeader(n), c) : n \in 0..1, c \in 0..MaxCut}

Fillers(n) == {Fill(m, salt) : m \in 0..n, salt \in {0, 64}}

Enveloped ==
    {Enc32(f) \o Enc32(l) \o Fill(m, 15) :
        f \in {0, 2}, l \in 0..(MaxBody + 1), m \in 0..MaxBody}

AggregatorInputs(expanded) ==
    {CutEnd(b, c) : b \in CounterBodies(expanded), c \in 0..MaxCut}
        \cup {OverCounted(expanded)} \cup Fillers(17)

DispatchInputs ==
    Fillers(MaxBody) \cup {Fill(m, 16) : m \in {16, 20, 32, 56, 57}}
        \cup {HeaderBody(d, m) : d \in 0..2, m \in 0..2}
        \cup CounterBodies(FALSE)

DispatchFormats(b) ==
    {[Format |-> f, Length |-> l] :
        f \in 0..7, l \in {0, Len(b), Len(b) + 1} \cup {Len(b) - m : m \in 1..MinOf(Len(b), 1)}}

\* An IPv4 header with first byte vihl (version and IHL) and the given
\* protocol, followed by trail bytes.
IPHeader(vihl, proto, trail) ==
    <<vihl, 0, 0, 40, 0, 1, 0, 0, 64, proto, 0, 0, 10, 0, 0, 1, 10, 0, 0, 2>>
        \o Fill(trail, 17)

Prefixes(b) == {SubSeq(b, 1, n) : n \in 0..Len(b)}

\* IHL of 5, 4 and 6 words; ICMP, TCP and UDP; every length up to the whole.
IPHeaderInputs ==
    UNION {Prefixes(IPHeader(v, p, MaxTrail)) :
              v \in {69, 68, 70}, p \in {1, 6, 17}}

\* An Ethernet frame around ip: untagged, 802.1Q or QinQ.
EthernetFrame(tags, ip) ==
    <<2, 0, 0, 0, 0, 1, 2, 0, 0, 0, 0, 2>>
        \o (CASE tags = 0 -> <<8, 0>>
              [] tags = 1 -> <<129, 0, 0, 5, 8, 0>>
              [] tags = 2 -> <<136, 168, 0, 5, 129, 0, 0, 6, 8, 0>>)
        \o ip

\* The packets whose first bytes a sampled-header record captures.
Frames ==
    {EthernetFrame(t, ip) :
        t \in 0..2, ip \in {IPHeader(69, 6, 4), IPHeader(68, 17, 4),
                             IPHeader(69, 1, 4)}}
        \cup {IPHeader(69, 17, 4), IPHeader(70, 6, MaxTrail), IPHeader(69, 1, 0)}

\* A sampled-header record body of the given header protocol capturing the
\* first n bytes of frame; the record holds the whole frame.
CapturedRecord(protocol, n, frame) ==
    Enc32(protocol) \o Enc32(64) \o Enc32(0) \o Enc32(n) \o frame

CapturedRecords ==
    UNION {{CapturedRecord(p, n, f) : p \in {1, 11, 2}, n \in 0..(Len(f) + 1)} :
              f \in Frames}

\* Every invocation the model makes: the operation, its input bytes and, for
\* a direct call of a dispatcher, the envelope it is called on.
Calls ==
    {[fn |-> "Header.Parse", buf |-> b, df |-> ZeroDataFormat] :
        b \in Datagrams \cup Fillers(MaxLen)}
    \cup {[fn |-> "DataFormat.Parse", buf |-> b, df |-> ZeroDataFormat] :
        b \in Enveloped \cup Fillers(8)}
    \cup {[fn |-> f, buf |-> c[1], df |-> c[2]] :
        f \in {"DataFormat.ParseSample", "DataFormat.ParseFlow",
               "DataFormat.ParseCounter"},
        c \in UNION {{<<b, d>> : d \in DispatchFormats(b)} : b \in DispatchInputs}}
    \cup {[fn |-> "CounterSamples.Parse", buf |-> b, df |-> ZeroDataFormat] :
        b \in AggregatorInputs(FALSE)}
    \cup {[fn |-> "CountersSampleExpanded.Parse", buf |-> b, df |-> ZeroDataFormat] :
        b \in AggregatorInputs(TRUE)}
    \cup {[fn |-> "SampledHeader.Parse", buf |-> b, df |-> ZeroDataFormat] :
        b \in Fillers(MaxLen) \cup {HeaderBody(d, m) : d \in 0..2, m \in 0..2}}
    \cup {[fn |-> f, buf |-> b, df |-> ZeroDataFormat] :
        f \in {"SampledEthernet.Parse", "SampledIPV4.Parse", "SampledIPV6.Parse"},
        b \in Fillers(MaxLen)}
    \cup {[fn |-> "SampledIPV4.ParseFromIPHeader", buf |-> b,
           df |-> ZeroDataFormat] : b \in IPHeaderInputs}
    \cup {[fn |-> "SampledHeader.SampledIPv4", buf |-> b,
           df |-> ZeroDataFormat] : b \in CapturedRecords}

-----------------------------------------------------------------------------
(* The state machine                                                       *)

\* The whole input as a slice.
Input == Slice(0, Len(buf))

\* A []Sample: nil, or the list.
NilSamples == [nil |-> TRUE, list |-> <<>>]

SampleList(l) == [nil |-> FALSE, list |-> l]

NoReturn == [err |-> "pending"]

Init ==
    /\ \E c \in Calls : fn = c.fn /\ buf = c.buf /\ df0 = c.df
    /\ pc = "call"
    /\ h = ZeroHeader
    /\ data = NilSlice
    /\ i = 0
    /\ dfs = <<>>
    /\ samples = NilSamples
    /\ iters = <<>>
    /\ ret = NoReturn
    /\ ctxs = <<>> /\ made = <<>> /\ states = <<>> /\ levels = <<>>
    /\ emitted = NoReturn
    /\ ProcessName = 0
    /\ defaultCoreOnce = [done |-> 0, m |-> 0]
    /\ defaultCore = [nil |-> TRUE]
    /\ gs = <<>>
    /\ setter = [pc |-> "idle"]

\* A direct call of an operation that returns in one step.
Return(r) ==
    /\ pc' = "done"
    /\ ret' = r
    /\ UNCHANGED <<fn, buf, df0, h, data, i, dfs, samples, iters>>
    /\ UNCHANGED <<logVars, onceVars>>

\* h.Parse(buf): the caller keeps the rest for ParseSamples.
HeaderParse ==
    /\ pc = "call" /\ fn = "Header.Parse"
    /\ LET r == Header_Parse(Input)
       IN  /\ h' = r.h
           /\ ret' = [err |-> r.err, rest |-> r.rest]
           /\ pc' = IF r.err = ErrNil THEN "parsed" ELSE "done"
    /\ UNCHANGED <<fn, buf, df0, data, i, dfs, samples, iters>>
    /\ UNCHANGED <<logVars, onceVars>>

\* h.ParseSamples(rest): the declarations before the loop.
ParseSamplesBegin ==
    /\ pc = "parsed"
    /\ data' = ret.rest
    /\ dfs' = <<>>
    /\ samples' = SampleList(<<>>)
    /\ i' = 0
    /\ pc' = "samples"
    /\ UNCHANGED <<fn, buf, df0, h, iters, ret>>
    /\ UNCHANGED <<logVars, onceVars>>

\* An iteration of the loop of ParseSamples, entered with data = d.
SampleIter(d) == [level |-> "sample", data |-> d]

\* The iterations of a sample's record loop, entered with data = heads[k].
RecordIters(heads) == [k \in 1..Len(heads) |-> [level |-> "record", data |-> heads[k]]]

\* ParseSamplesAppend with `return samples, err` on a failed dispatch.
ParseSamplesAppend_KeepsPrefix(s) ==
    /\ data' = s.rest
    /\ iters' = Append(iters, SampleIter(data)) \o RecordIters(s.heads)
    /\ IF s.err # ErrNil
       THEN /\ ret' = [err |-> s.err, samples |-> samples]
            /\ pc' = "done"
            /\ UNCHANGED <<samples, i>>
       ELSE /\ samples' = SampleList(Append(samples.list, s.val))
            /\ i' = i + 1
            /\ UNCHANGED <<pc, ret>>

\* ParseSamplesAppend keeping data where it was instead of taking the rest.
ParseSamplesAppend_NoAdvance(s) ==
    /\ data' = data
    /\ iters' = Append(iters, SampleIter(data)) \o RecordIters(s.heads)
    /\ IF s.err # ErrNil
       THEN /\ ret' = [err |-> s.err, samples |-> NilSamples]
            /\ pc' = "done"
            /\ UNCHANGED <<samples, i>>
       ELSE /\ samples' = SampleList(Append(samples.list, s.val))
            /\ i' = i + 1
            /\ UNCHANGED <<pc, ret>>

\* sample, data, err = df.ParseSample(data) gave s; then
\* samples = append(samples, sample): the sample is appended as returned,
\* also when it is the nil of a skipped envelope.
ParseSamplesAppend(s) ==
    /\ data' = s.rest
    /\ iters' = Append(iters, SampleIter(data)) \o RecordIters(s.heads)
    /\ IF s.err # ErrNil
       THEN /\ ret' = [err |-> s.err, samples |-> NilSamples]
            /\ pc' = "done"
            /\ UNCHANGED <<samples, i>>
       ELSE /\ samples' = SampleList(Append(samples.list, s.val))
            /\ i' = i + 1
            /\ UNCHANGED <<pc, ret>>

\* data, err = df.Parse(data) gave e; then dfs = append(dfs, df) and the
\* dispatch.
ParseSamplesDispatch(e) ==
    IF e.err # ErrNil
    THEN /\ data' = e.rest
         /\ ret' = [err |-> e.err, samples |-> NilSamples]
         /\ pc' = "done"
         /\ iters' = Append(iters, SampleIter(data))
         /\ UNCHANGED <<dfs, samples, i>>
    ELSE /\ dfs' = Append(dfs, e.df)
         /\ ParseSamplesAppend(DataFormat_ParseSample(e.df, e.rest))

\* One iteration of the loop of ParseSamples.
ParseSamplesLoop ==
    /\ pc = "samples" /\ i < h.NumSamples
    /\ ParseSamplesDispatch(DataFormat_Parse(data))
    /\ UNCHANGED <<fn, buf, df0, h>>
    /\ UNCHANGED <<logVars, onceVars>>

\* return samples, nil
ParseSamplesReturn ==
    /\ pc = "samples" /\ ~(i < h.NumSamples)
    /\ ret' = [err |-> ErrNil, samples |-> samples]
    /\ pc' = "done"
    /\ UNCHANGED <<fn, buf, df0, h, data, i, dfs, samples, iters>>
    /\ UNCHANGED <<logVars, onceVars>>

DataFormatParse ==
    /\ pc = "call" /\ fn = "DataFormat.Parse"
    /\ Return(DataFormat_Parse(Input))

ParseSample ==
    /\ pc = "call" /\ fn = "DataFormat.ParseSample"
    /\ Return(DataFormat_ParseSample(df0, Input))

\* The caller of ParseFlow asks the flow it got for its FlowType().
WithFlowType(r) ==
    IF r.err # ErrNil
    THEN r
    ELSE [val |-> r.val, rest |-> r.rest, err |-> r.err,
          flowType |-> FlowType(r.val)]

ParseFlow ==
    /\ pc = "call" /\ fn = "DataFormat.ParseFlow"
    /\ Return(WithFlowType(DataFormat_ParseFlow(df0, Input)))

ParseCounter ==
    /\ pc = "call" /\ fn = "DataFormat.ParseCounter"
    /\ Return(DataFormat_ParseCounter(df0, Input))

CounterSamplesParse ==
    /\ pc = "call" /\ fn = "CounterSamples.Parse"
    /\ Return(CounterSamples_Parse(Input))

CountersSampleExpandedParse ==
    /\ pc = "call" /\ fn = "CountersSampleExpanded.Parse"
    /\ Return(CountersSampleExpanded_Parse(Input))

SampledHeaderParse ==
    /\ pc = "call" /\ fn = "SampledHeader.Parse"
    /\ Return(SampledHeader_Parse(Input))

SampledEthernetParse ==
    /\ pc = "call" /\ fn = "SampledEthernet.Parse"
    /\ Return(SampledEthernet_Parse(Input))

SampledIPV4Parse ==
    /\ pc = "call" /\ fn = "SampledIPV4.Parse"
    /\ Return(SampledIPV4_Parse(Input))

SampledIPV6Parse ==
    /\ pc = "call" /\ fn = "SampledIPV6.Parse"
    /\ Return(SampledIPV6_Parse(Input))

ParseFromIPHeader ==
    /\ pc = "call" /\ fn = "SampledIPV4.ParseFromIPHeader"
    /\ Return(SampledIPV4_ParseFromIPHeader(Input))

\* sh.Parse(buf) on &SampledHeader{}: the receiver SampledIPv4 is called on.
SampledHeaderReceiver ==
    /\ pc = "call" /\ fn = "SampledHeader.SampledIPv4"
    /\ ret' = SampledHeader_Parse(Input)
    /\ pc' = IF ret'.err = ErrNil THEN "decoded" ELSE "done"
    /\ UNCHANGED <<fn, buf, df0, h, data, i, dfs, samples, iters>>
    /\ UNCHANGED <<logVars, onceVars>>

\* sh.SampledIPv4()
SampledIPv4 ==
    /\ pc = "decoded"
    /\ ret' = [err |-> ret.err, val |-> ret.val,
               ip |-> SampledHeader_SampledIPv4(ret.val)]
    /\ pc' = "done"
    /\ UNCHANGED <<fn, buf, df0, h, data, i, dfs, samples, iters>>
    /\ UNCHANGED <<logVars, onceVars>>

Next ==
    \/ HeaderParse
    \/ ParseSamplesBegin
    \/ ParseSamplesLoop
    \/ ParseSamplesReturn
    \/ DataFormatParse
    \/ ParseSample
    \/ ParseFlow
    \/ ParseCounter
    \/ CounterSamplesParse
    \/ CountersSampleExpandedParse
    \/ SampledHeaderParse
    \/ SampledEthernetParse
    \/ SampledIPV4Parse
    \/ SampledIPV6Parse
    \/ ParseFromIPHeader
    \/ SampledHeaderReceiver
    \/ SampledIPv4

Spec == Init /\ [][Next]_vars

-----------------------------------------------------------------------------
(* Package log: contexts and loggers.  A context is the values it carries  *)
(* for the three context keys.  A *loggerState and a zap.AtomicLevel are   *)
(* cells of the heaps `states` and `levels`, named by their index (0 is    *)
(* nil), so that two states sharing a level share an index.  A             *)
(* zapcore.Core is the sequence of the cores teed together, in order: 0,   *)
(* the default backend, then the handler functions by their number.        *)

\* zap.DebugLevel, zap.InfoLevel, zap.WarnLevel, zap.ErrorLevel
DebugLevel == -1

InfoLevel == 0

WarnLevel == 1

ErrorLevel == 2

\* strings.ToLower, on the level names the model passes.
ToLower(s) ==
    CASE s = "WARN" -> "warn"
      [] s = "Debug" -> "debug"
      [] OTHER -> s

\* The switch of setLevel, on the lowered name.
LevelNamed(levelStr) ==
    CASE levelStr = "debug" -> DebugLevel
      [] levelStr = "info" -> InfoLevel
      [] levelStr = "warn" -> WarnLevel
      [] levelStr \in {"error", "crit"} -> ErrorLevel
      [] OTHER -> InfoLevel

\* zapcore.Level.String()
LevelString(lvl) ==
    CASE lvl = DebugLevel -> "debug"
      [] lvl = InfoLevel -> "info"
      [] lvl = WarnLevel -> "warn"
      [] lvl = ErrorLevel -> "error"

Heap(ss, ls) == [states |-> ss, levels |-> ls]

\* context.Background()
Background == [logger |-> 0, uuid |-> 0, attrs |-> <<>>]

\* strconv.Itoa(os.Getpid())
Pid == "4711"

\* func setLevel(state *loggerState, levelStr string), on the state sp: it
\* writes the state's name and inDebug and the level cell the state points to.
setLevel(hp, sp, levelStr) ==
    Heap([hp.states EXCEPT ![sp].name = ToLower(levelStr),
                           ![sp].inDebug = (ToLower(levelStr) = "debug")],
         [hp.levels EXCEPT ![hp.states[sp].level] = LevelNamed(ToLower(levelStr))])

\* The end of LoggerNewContext, the new state being the last of hp: the
\* LOG_LEVEL check and the two context.WithValue.
NewContextWithState(hp, ctx, env) ==
    [heap |-> IF env # "" THEN setLevel(hp, Len(hp.states), env) ELSE hp,
     ctx |-> [ctx EXCEPT !.logger = Len(hp.states), !.attrs = <<>>]]

\* func LoggerNewContext(ctx context.Context) context.Context, with LOG_LEVEL
\* holding env
LoggerNewContext(hp, ctx, env) ==
    NewContextWithState(
        Heap(Append(hp.states,
                    [core |-> <<0>>, level |-> Len(hp.levels) + 1, pid |-> Pid,
                     inDebug |-> FALSE, name |-> "info"]),
             Append(hp.levels, InfoLevel)),
        ctx, env)

\* state := stateFromContext(ctx); if state == nil { ctx = LoggerNewContext(ctx) ... }
WithState(hp, ctx, env) ==
    IF ctx.logger = 0
    THEN LoggerNewContext(hp, ctx, env)
    ELSE [heap |-> hp, ctx |-> ctx]

\* LoggerSetLevel calling setLevel on the state it found, not on a copy.
SetLevelOnCopy_InPlace(e, levelStr) ==
    [heap |-> setLevel(e.heap, e.ctx.logger, levelStr), ctx |-> e.ctx]

\* The copy of LoggerSetLevel: a new state with the old core and pid and a new
\* level cell, setLevel on it, and the context that carries it.
SetLevelOnCopy(e, levelStr) ==
    [heap |-> setLevel(
                  Heap(Append(e.heap.states,
                              [core |-> e.heap.states[e.ctx.logger].core,
                               level |-> Len(e.heap.levels) + 1,
                               pid |-> e.heap.states[e.ctx.logger].pid,
                               inDebug |-> FALSE, name |-> ""]),
                       Append(e.heap.levels, InfoLevel)),
                  Len(e.heap.states) + 1, levelStr),
     ctx |-> [e.ctx EXCEPT !.logger = Len(e.heap.states) + 1]]

\* func LoggerSetLevel(ctx context.Context, levelStr string) context.Context
LoggerSetLevel(hp, ctx, levelStr, env) ==
    SetLevelOnCopy(WithState(hp, ctx, env), levelStr)

\* func LoggerGetLevel(ctx context.Context) string
LoggerGetLevel(hp, ctx) ==
    IF ctx.logger = 0 THEN "info" ELSE hp.states[ctx.logger].name

\* The copy of LoggerAddHandler: the old core teed with the handler, the old
\* level cell, pid, inDebug and name.
AddHandlerOnCopy(e, f) ==
    [heap |-> Heap(Append(e.heap.states,
                          [e.heap.states[e.ctx.logger] EXCEPT
                              !.core = Append(@, f)]),
                   e.heap.levels),
     ctx |-> [e.ctx EXCEPT !.logger = Len(e.heap.states) + 1]]

\* func LoggerAddHandler(ctx context.Context, f func(...) error) context.Context
LoggerAddHandler(hp, ctx, f, env) == AddHandlerOnCopy(WithState(hp, ctx, env), f)

\* func LoggerNewRequest(ctx context.Context) context.Context, u the new UUID
LoggerNewRequest(ctx, u) == [ctx EXCEPT !.uuid = u]

\* func AddToLogContext(ctx context.Context, args ...any) context.Context
AddToLogContext(ctx, args) ==
    IF Len(args) % 2 # 0
    THEN ctx
    ELSE [ctx EXCEPT !.attrs =
              @ \o [k \in 1..(Len(args) \div 2) |->
                       [key |-> args[2 * k - 1], val |-> args[2 * k]]]]

\* The logger LoggerWContext builds from the state of e: the leveled core
\* around the state's core, with pid, the request UUID and the context's
\* fields.
LeveledLogger(e) ==
    [heap |-> e.heap,
     logger |-> [inner |-> e.heap.states[e.ctx.logger].core,
                 level |-> e.heap.states[e.ctx.logger].level,
                 fields |-> <<[key |-> "pid",
                               val |-> e.heap.states[e.ctx.logger].pid]>>
                            \o (IF e.ctx.uuid # 0
                                THEN <<[key |-> "request-uuid", val |-> e.ctx.uuid]>>
                                ELSE <<>>)
                            \o e.ctx.attrs]]

\* func LoggerWContext(ctx context.Context, args ...any) EgLogger, without args
LoggerWContext(hp, ctx, env) == LeveledLogger(WithState(hp, ctx, env))

\* The attrs map funcCore.Write builds: a later field replaces an earlier one
\* of the same key.
AttrsOf(fields) ==
    [k \in {fields[n].key : n \in 1..Len(fields)} |->
        fields[CHOOSE n \in 1..Len(fields) :
                   /\ fields[n].key = k
                   /\ \A m \in (n + 1)..Len(fields) : fields[m].key # k].val]

\* The entry written to every core teed in l.inner: Tee checks and writes its
\* cores in order, the default backend and every funcCore accept any level.
Write(l, lvl, msg, fields) ==
    [k \in 1..Len(l.inner) |->
        [fn |-> l.inner[k], msg |-> msg, level |-> LevelString(lvl),
         attrs |-> AttrsOf(l.fields \o fields)]]

\* levelFilterCore.Check passing every entry on.
Log_Unfiltered(ls, l, lvl, msg, fields) == Write(l, lvl, msg, fields)

\* A logging call at level lvl: levelFilterCore.Check hands the entry to the
\* inner core only if the level cell enables lvl.
Log(ls, l, lvl, msg, fields) ==
    IF lvl >= ls[l.level] THEN Write(l, lvl, msg, fields) ELSE <<>>

\* LoggerWContext(ctx).Debug(msg) inside LoggerDebugFunc, w the logger built.
DebugFuncLog(w, msg) ==
    [heap |-> w.heap, ran |-> TRUE,
     to |-> Log(w.heap.levels, w.logger, DebugLevel, msg, <<>>)]

\* func LoggerDebugFunc(ctx context.Context, f func() string), f returning msg
LoggerDebugFunc(hp, ctx, msg, env) ==
    IF ctx.logger # 0 /\ hp.states[ctx.logger].inDebug
    THEN IF msg # ""
         THEN DebugFuncLog(LoggerWContext(hp, ctx, env), msg)
         ELSE [heap |-> hp, ran |-> TRUE, to |-> <<>>]
    ELSE [heap |-> hp, ran |-> FALSE, to |-> <<>>]

-----------------------------------------------------------------------------
(* Package log: the calls a program makes on its contexts.                 *)

\* What a logger built from ctx delivers at level lvl.
EmissionOf(w, lvl) == Log(w.heap.levels, w.logger, lvl, "m", <<>>)

\* What the program can see of the context ctx: what a logger built from it
\* delivers at each level (to which cores, with which fields), its level
\* name and whether LoggerDebugFunc runs its function.
ObservedThrough(w, hp, ctx) ==
    [emits |-> [lvl \in {DebugLevel, InfoLevel, WarnLevel, ErrorLevel} |->
                   EmissionOf(w, lvl)],
     name |-> LoggerGetLevel(hp, ctx),
     debug |-> LoggerDebugFunc(hp, ctx, "", "").ran]

Observed(hp, ctx) == ObservedThrough(LoggerWContext(hp, ctx, ""), hp, ctx)

\* The record kept of a context when it is made: m, the context and what
\* could be seen of it then.
Remembered(m, e) ==
    [from |-> m.from, set |-> m.set, handlers |-> m.handlers, ctx |-> e.ctx,
     seen |-> Observed(e.heap, e.ctx)]

\* The most contexts the program makes, context.Background() included.
MaxCtxs == 4

\* The contexts the program logs with: the last one made and the one before
\* it.
Held == {c \in 1..Len(ctxs) : c + 1 >= Len(ctxs)}

\* The context the program derives the next one from: the last one made.
Newest == {Len(ctxs)}

\* The values of LOG_LEVEL in the environment.
EnvLevels == {"", "debug"}

\* The level names passed to LoggerSetLevel.
LevelNames == {"debug", "info", "error", "WARN"}

\* A program of package log: it holds context.Background() and has called
\* nothing yet.
LogInit ==
    /\ fn = "log" /\ buf = <<>> /\ df0 = ZeroDataFormat /\ pc = "log"
    /\ h = ZeroHeader /\ data = NilSlice /\ i = 0 /\ dfs = <<>>
    /\ samples = NilSamples /\ iters = <<>> /\ ret = NoReturn
    /\ ctxs = <<Background>>
    /\ made = <<Remembered([from |-> 0, set |-> "", handlers |-> {}],
                           [heap |-> Heap(<<>>, <<>>), ctx |-> Background])>>
    /\ states = <<>> /\ levels = <<>>
    /\ emitted = NoReturn
    /\ ProcessName = 0
    /\ defaultCoreOnce = [done |-> 0, m |-> 0]
    /\ defaultCore = [nil |-> TRUE]
    /\ gs = <<>>
    /\ setter = [pc |-> "idle"]

\* A call returned the context e.ctx, which the program keeps; m records how
\* it was made.
Derived(e, m) ==
    /\ fn = "log" /\ emitted = NoReturn /\ Len(ctxs) < MaxCtxs
    /\ ctxs' = Append(ctxs, e.ctx)
    /\ made' = Append(made, Remembered(m, e))
    /\ states' = e.heap.states
    /\ levels' = e.heap.levels
    /\ UNCHANGED <<emitted, sflowVars, onceVars>>

\* ctx2 := LoggerNewContext(ctx): a new logger, without level set or handler.
CtxNewContext ==
    \E c \in Newest, env \in EnvLevels :
        Derived(LoggerNewContext(Heap(states, levels), ctxs[c], env),
                [from |-> c, set |-> "", handlers |-> {}])

\* ctx2 := LoggerSetLevel(ctx, levelStr)
CtxSetLevel ==
    \E c \in Newest, levelStr \in LevelNames, env \in EnvLevels :
        Derived(LoggerSetLevel(Heap(states, levels), ctxs[c], levelStr, env),
                [from |-> c, set |-> levelStr, handlers |-> made[c].handlers])

\* ctx2 := LoggerAddHandler(ctx, f), f a function not used before.
CtxAddHandler ==
    \E c \in Newest, env \in EnvLevels :
        Derived(LoggerAddHandler(Heap(states, levels), ctxs[c], Len(ctxs) + 1, env),
                [from |-> c, set |-> made[c].set,
                 handlers |-> made[c].handlers \cup {Len(ctxs) + 1}])

\* ctx2 := AddToLogContext(ctx, args...)
CtxAddToLogContext ==
    \E c \in Newest, args \in {<<"k", "v">>, <<"k">>} :
        Derived([heap |-> Heap(states, levels),
                 ctx |-> AddToLogContext(ctxs[c], args)],
                [from |-> c, set |-> made[c].set, handlers |-> made[c].handlers])

\* ctx2 := LoggerNewRequest(ctx)
CtxNewRequest ==
    \E c \in Newest :
        Derived([heap |-> Heap(states, levels),
                 ctx |-> LoggerNewRequest(ctxs[c], Len(ctxs) + 1)],
                [from |-> c, set |-> made[c].set, handlers |-> made[c].handlers])

\* LoggerWContext(ctxs[c]) gave w and the method logged "m" at lvl.
Logged(c, method, w, lvl, fields) ==
    /\ fn = "log" /\ emitted = NoReturn
    /\ emitted' = [op |-> method, ctx |-> c, ran |-> TRUE,
                   to |-> Log(w.heap.levels, w.logger, lvl, "m", fields)]
    /\ states' = w.heap.states
    /\ levels' = w.heap.levels
    /\ UNCHANGED <<ctxs, made, sflowVars, onceVars>>

\* LoggerWContext(ctx).Debug("m")
LoggerDebug ==
    \E c \in Held, env \in EnvLevels :
        Logged(c, "Debug", LoggerWContext(Heap(states, levels), ctxs[c], env),
               DebugLevel, <<>>)

\* LoggerWContext(ctx).Info("m")
LoggerInfo ==
    \E c \in Held, env \in EnvLevels :
        Logged(c, "Info", LoggerWContext(Heap(states, levels), ctxs[c], env),
               InfoLevel, <<>>)

\* LoggerWContext(ctx).Warn("m")
LoggerWarn ==
    \E c \in Held, env \in EnvLevels :
        Logged(c, "Warn", LoggerWContext(Heap(states, levels), ctxs[c], env),
               WarnLevel, <<>>)

\* LoggerWContext(ctx).Error("m")
LoggerError ==
    \E c \in Held, env \in EnvLevels :
        Logged(c, "Error", LoggerWContext(Heap(states, levels), ctxs[c], env),
               ErrorLevel, <<>>)

\* LoggerWContext(ctx).Crit("m"): Errorw with severity = critical appended.
LoggerCrit ==
    \E c \in Held, env \in EnvLevels :
        Logged(c, "Crit", LoggerWContext(Heap(states, levels), ctxs[c], env),
               ErrorLevel, <<[key |-> "severity", val |-> "critical"]>>)

\* LoggerDebugFunc(ctxs[c], f) returned r.
DebugFuncReturned(c, r) ==
    /\ fn = "log" /\ emitted = NoReturn
    /\ emitted' = [op |-> "DebugFunc", ctx |-> c, ran |-> r.ran, to |-> r.to]
    /\ states' = r.heap.states
    /\ levels' = r.heap.levels
    /\ UNCHANGED <<ctxs, made, sflowVars, onceVars>>

\* LoggerDebugFunc(ctx, func() string { return msg })
DebugFunc ==
    \E c \in Held, msg \in {"", "m"}, env \in EnvLevels :
        DebugFuncReturned(c, LoggerDebugFunc(Heap(states, levels), ctxs[c], msg, env))

\* LoggerGetLevel(ctx)
GetLevel ==
    /\ fn = "log" /\ emitted = NoReturn
    /\ \E c \in Held :
          emitted' = [op |-> "GetLevel", ctx |-> c, ran |-> TRUE, to |-> <<>>,
                      name |-> LoggerGetLevel(Heap(states, levels), ctxs[c])]
    /\ UNCHANGED <<ctxs, made, states, levels, sflowVars, onceVars>>

LogNext ==
    \/ CtxNewContext
    \/ CtxSetLevel
    \/ CtxAddHandler
    \/ CtxAddToLogContext
    \/ CtxNewRequest
    \/ LoggerDebug
    \/ LoggerInfo
    \/ LoggerWarn
    \/ LoggerError
    \/ LoggerCrit
    \/ DebugFunc
    \/ GetLevel

LogSpec == LogInit /\ [][LogNext]_vars

\* ---------------------------------------------------------------------------
\* Package log: the default backend, built once and rebuilt after
\* SetProcessName (var defaultCore, defaultCoreOnce; getDefaultCore;
\* SetProcessName). Goroutines creating logger contexts run getDefaultCore
\* step by step, sync.Once.Do included; one goroutine calls SetProcessName,
\* whose two assignments are plain writes that nothing orders with the
\* other goroutines' steps.

\* The most goroutines that create a logger context.
MaxCreators == 2

\* The most calls of SetProcessName; the k-th call passes the name k, the
\* name at program start (os.Args[0]) being 0.
MaxSets == 2

\* The nil zapcore.Core.
NilCore == [nil |-> TRUE]

\* getLogBackend(): a backend opened under the process name it reads.
getLogBackend(name) == [nil |-> FALSE, name |-> name]

\* sync.Once{}: done = 0 and an unlocked mutex.
ZeroOnce == [done |-> 0, m |-> 0]

\* The goroutine calling SetProcessName before its first call: calls counts
\* the calls begun, returned those that have returned, builds the backends
\* built since the last call began.
IdleSetter == [pc |-> "idle", calls |-> 0, returned |-> 0, builds |-> 0, todo |-> {}]

\* No goroutine has died with "fatal error: sync: unlock of unlocked mutex".
Running == \A g \in 1..Len(gs) : gs[g].pc # "fatal"

OnceInit ==
    /\ fn = "once" /\ buf = <<>> /\ df0 = ZeroDataFormat /\ pc = "once"
    /\ h = ZeroHeader /\ data = NilSlice /\ i = 0 /\ dfs = <<>>
    /\ samples = NilSamples /\ iters = <<>> /\ ret = NoReturn
    /\ ctxs = <<>> /\ made = <<>> /\ states = <<>> /\ levels = <<>>
    /\ emitted = NoReturn
    /\ ProcessName = 0
    /\ defaultCoreOnce = ZeroOnce
    /\ defaultCore = NilCore
    /\ gs = <<>>
    /\ setter = IdleSetter

\* Goroutine g moves to position p.
Goto(g, p) == gs' = [gs EXCEPT ![g].pc = p]

\* A goroutine calls LoggerNewContext (directly, or through Logger or
\* LoggerWContext on a bare context), which calls getDefaultCore. after is
\* the last SetProcessName call that had returned by then.
NewContext ==
    /\ fn = "once" /\ Running
    /\ Len(gs) < MaxCreators
    /\ gs' = Append(gs, [pc |-> "Do", after |-> setter.returned,
                         b |-> NilCore, got |-> NilCore])
    /\ UNCHANGED <<ProcessName, defaultCoreOnce, defaultCore, setter>>
    /\ UNCHANGED <<sflowVars, logVars>>

\* Once.Do: if o.done.Load() == 0 { o.doSlow(f) }
OnceDo ==
    \E g \in 1..Len(gs) :
        /\ fn = "once" /\ Running
        /\ gs[g].pc = "Do"
        /\ Goto(g, IF defaultCoreOnce.done = 0 THEN "Lock" ELSE "return")
        /\ UNCHANGED <<ProcessName, defaultCoreOnce, defaultCore, setter>>
        /\ UNCHANGED <<sflowVars, logVars>>

\* doSlow: o.m.Lock(), which waits while the mutex is locked.
OnceLock ==
    \E g \in 1..Len(gs) :
        /\ fn = "once" /\ Running
        /\ gs[g].pc = "Lock"
        /\ defaultCoreOnce.m = 0
        /\ defaultCoreOnce' = [defaultCoreOnce EXCEPT !.m = 1]
        /\ Goto(g, "doSlow")
        /\ UNCHANGED <<ProcessName, defaultCore, setter>>
        /\ UNCHANGED <<sflowVars, logVars>>

\* doSlow: defer o.m.Unlock(); if o.done.Load() == 0 { defer o.done.Store(1); f() }
OnceDoSlow ==
    \E g \in 1..Len(gs) :
        /\ fn = "once" /\ Running
        /\ gs[g].pc = "doSlow"
        /\ Goto(g, IF defaultCoreOnce.done = 0 THEN "f" ELSE "Unlock")
        /\ UNCHANGED <<ProcessName, defaultCoreOnce, defaultCore, setter>>
        /\ UNCHANGED <<sflowVars, logVars>>

\* f: the call getLogBackend() of defaultCore = getLogBackend().
BuildBackend ==
    \E g \in 1..Len(gs) :
        /\ fn = "once" /\ Running
        /\ gs[g].pc = "f"
        /\ gs' = [gs EXCEPT ![g].pc = "assign", ![g].b = getLogBackend(ProcessName)]
        /\ setter' = [setter EXCEPT !.builds = @ + 1]
        /\ UNCHANGED <<ProcessName, defaultCoreOnce, defaultCore>>
        /\ UNCHANGED <<sflowVars, logVars>>

\* f: the assignment of defaultCore = getLogBackend().
AssignDefaultCore ==
    \E g \in 1..Len(gs) :
        /\ fn = "once" /\ Running
        /\ gs[g].pc = "assign"
        /\ defaultCore' = gs[g].b
        /\ Goto(g, "Store")
        /\ UNCHANGED <<ProcessName, defaultCoreOnce, setter>>
        /\ UNCHANGED <<sflowVars, logVars>>

\* doSlow: the deferred o.done.Store(1).
OnceStore ==
    \E g \in 1..Len(gs) :
        /\ fn = "once" /\ Running
        /\ gs[g].pc = "Store"
        /\ defaultCoreOnce' = [defaultCoreOnce EXCEPT !.done = 1]
        /\ Goto(g, "Unlock")
        /\ UNCHANGED <<ProcessName, defaultCore, setter>>
        /\ UNCHANGED <<sflowVars, logVars>>

\* doSlow: the deferred o.m.Unlock(); unlocking an unlocked mutex is fatal.
OnceUnlock ==
    \E g \in 1..Len(gs) :
        /\ fn = "once" /\ Running
        /\ gs[g].pc = "Unlock"
        /\ IF defaultCoreOnce.m = 1
           THEN /\ defaultCoreOnce' = [defaultCoreOnce EXCEPT !.m = 0]
                /\ Goto(g, "return")
           ELSE /\ UNCHANGED defaultCoreOnce
                /\ Goto(g, "fatal")
        /\ UNCHANGED <<ProcessName, defaultCore, setter>>
        /\ UNCHANGED <<sflowVars, logVars>>

\* getDefaultCore: return defaultCore, which the new context's state keeps.
ReturnDefaultCore ==
    \E g \in 1..Len(gs) :
        /\ fn = "once" /\ Running
        /\ gs[g].pc = "return"
        /\ gs' = [gs EXCEPT ![g].pc = "created", ![g].got = defaultCore]
        /\ UNCHANGED <<ProcessName, defaultCoreOnce, defaultCore, setter>>
        /\ UNCHANGED <<sflowVars, logVars>>

\* SetProcessName(name) is called.
SetProcessNameCall ==
    /\ fn = "once" /\ Running
    /\ setter.pc = "idle"
    /\ setter.calls < MaxSets
    /\ setter' = [setter EXCEPT !.pc = "name", !.calls = @ + 1, !.builds = 0]
    /\ UNCHANGED <<ProcessName, defaultCoreOnce, defaultCore, gs>>
    /\ UNCHANGED <<sflowVars, logVars>>

\* SetProcessName: ProcessName = name
SetName ==
    /\ fn = "once" /\ Running
    /\ setter.pc = "name"
    /\ ProcessName' = setter.calls
    /\ setter' = [setter EXCEPT !.pc = "reset", !.todo = {"done", "m"}]
    /\ UNCHANGED <<defaultCoreOnce, defaultCore, gs>>
    /\ UNCHANGED <<sflowVars, logVars>>

\* SetProcessName: defaultCoreOnce = sync.Once{}, a plain copy of the zero
\* value over the two words of the struct, in either order.
ResetOnce ==
    \E word \in setter.todo :
        /\ fn = "once" /\ Running
        /\ setter.pc = "reset"
        /\ defaultCoreOnce' = [defaultCoreOnce EXCEPT ![word] = ZeroOnce[word]]
        /\ setter' = [setter EXCEPT !.todo = @ \ {word}]
        /\ UNCHANGED <<ProcessName, defaultCore, gs>>
        /\ UNCHANGED <<sflowVars, logVars>>

\* SetProcessName returns.
SetProcessNameReturn ==
    /\ fn = "once" /\ Running
    /\ setter.pc = "reset" /\ setter.todo = {}
    /\ setter' = [setter EXCEPT !.pc = "idle", !.returned = setter.calls]
    /\ UNCHANGED <<ProcessName, defaultCoreOnce, defaultCore, gs>>
    /\ UNCHANGED <<sflowVars, logVars>>

OnceNext ==
    \/ NewContext
    \/ OnceDo
    \/ OnceLock
    \/ OnceDoSlow
    \/ BuildBackend
    \/ AssignDefaultCore
    \/ OnceStore
    \/ OnceUnlock
    \/ ReturnDefaultCore
    \/ SetProcessNameCall
    \/ SetName
    \/ ResetOnce
    \/ SetProcessNameReturn

OnceSpec == OnceInit /\ [][OnceNext]_vars

-----------------------------------------------------------------------------
(* Properties                                                              *)

\* ParseSamples has returned (the invocation was Header.Parse followed by
\* ParseSamples on the rest).
SamplesReturned == fn = "Header.Parse" /\ pc = "done" /\ "samples" \in DOMAIN ret

\* A direct call of operation f has returned.
Returned(f) == fn = f /\ pc = "done"

\* The length of the fixed prefix of a sample of the given kind.
PrefixOf(kind) == IF kind \in {"CounterSamples", "FlowSample"} THEN 12 ELSE 16

\* The record count a decoded sample's body declares.
DeclaredRecords(s) == Uint32(s.body, PrefixOf(s.kind) - 4)

\* C1: when ParseSamples fails, wherever in the sequence of envelopes and at
\* whatever depth, it returns the error (TooShort or OutOfBounds) with a nil
\* sample list, never the samples decoded before the failure; and a list it
\* does return holds no sample whose record list stops short of its declared
\* count.
C1_NoPartialOutput ==
    SamplesReturned =>
        /\ ret.err # ErrNil =>
              /\ ret.err \in {ErrTooShort, ErrOutOfBounds}
              /\ ret.samples = NilSamples
        /\ ret.err = ErrNil =>
              /\ ~ret.samples.nil
              /\ \A k \in 1..Len(ret.samples.list) :
                    LET s == ret.samples.list[k]
                    IN  s # NilValue => Len(s.Records) = DeclaredRecords(s)

\* C1 witness: the decode fails inside the records of a later sample, after
\* an earlier sample was decoded and appended.
C1_Witness ==
    /\ SamplesReturned
    /\ ret.err = ErrOutOfBounds
    /\ Len(samples.list) >= 1
    /\ samples.list[1] # NilValue
    /\ iters[Len(iters)].level = "record"

RecognizedSample(code) ==
    code \in {FlowSampleType, CounterSamplesType, FlowSampleExpandedType}

\* The envelopes of dfs that carry a recognized sample code, in order.
RecognizedEnvelopes == SelectSeq(dfs, LAMBDA e : RecognizedSample(e.Format))

\* The kind of sample a recognized code decodes to.
KindOfSample(code) ==
    CASE code = FlowSampleType -> "FlowSample"
      [] code = CounterSamplesType -> "CounterSamples"
      [] code = FlowSampleExpandedType -> "FlowSampleExpanded"

\* C2: on success ParseSamples has read exactly NumSamples envelopes and its
\* output holds exactly the samples of the envelopes with a recognized code,
\* in wire order: an unrecognized envelope contributes no element, not even a
\* nil one, and NumSamples = 0 gives the empty (non-nil) sequence.
C2_OnlyRecognizedSamples ==
    (SamplesReturned /\ ret.err = ErrNil) =>
        /\ Len(dfs) = h.NumSamples
        /\ ~ret.samples.nil
        /\ Len(ret.samples.list) = Len(RecognizedEnvelopes)
        /\ \A k \in 1..Len(ret.samples.list) :
              /\ ret.samples.list[k] # NilValue
              /\ ret.samples.list[k].kind = KindOfSample(RecognizedEnvelopes[k].Format)

\* C3: on a buffer of at least 8 bytes DataFormat.Parse fails with
\* OutOfBounds exactly when the big-endian length at bytes 4..8 exceeds the
\* bytes after the 8-byte prefix; otherwise it succeeds with Format = bytes
\* 0..4, Length = bytes 4..8 and returns the buffer less exactly those 8 bytes.
C3_EnvelopeBounds ==
    (Returned("DataFormat.Parse") /\ Len(buf) >= 8) =>
        LET declared == buf[5] * 16777216 + buf[6] * 65536 + buf[7] * 256 + buf[8]
            format == buf[1] * 16777216 + buf[2] * 65536 + buf[3] * 256 + buf[4]
        IN  /\ ret.err = ErrOutOfBounds <=> declared > Len(buf) - 8
            /\ ret.err # ErrOutOfBounds =>
                  /\ ret.err = ErrNil
                  /\ ret.df = [Format |-> format, Length |-> declared]
                  /\ ret.rest = Slice(8, Len(buf))

\* C3 witness: an envelope whose body exactly fills the buffer is accepted and
\* its body is left in the returned slice.
C3_Witness ==
    /\ Returned("DataFormat.Parse")
    /\ ret.err = ErrNil
    /\ ret.df.Length > 0
    /\ ret.df.Length = Len(buf) - 8
    /\ SLen(ret.rest) = ret.df.Length

\* The big-endian 32-bit value at bytes a..a+4 of the input.
WireU32(a) ==
    buf[a + 1] * 16777216 + buf[a + 2] * 65536 + buf[a + 3] * 256 + buf[a + 4]

\* The zero value of a flow record type, as the dispatcher allocates it.
ZeroFlow(kind) ==
    CASE kind = "SampledHeader" ->
             [kind |-> kind, Protocol |-> 0, FrameLength |-> 0,
              PayloadRemoved |-> 0, Header |-> <<>>]
      [] kind = "SampledEthernet" ->
             [kind |-> kind, Length |-> 0, SrcMac |-> <<0, 0, 0, 0, 0, 0>>,
              DstMac |-> <<0, 0, 0, 0, 0, 0>>, Type |-> 0]
      [] kind = "SampledIPV4" ->
             [kind |-> kind, Length |-> 0, Protocol |-> 0,
              SrcIP |-> <<0, 0, 0, 0>>, DstIP |-> <<0, 0, 0, 0>>,
              SrcPort |-> 0, DstPort |-> 0, TCPFlags |-> 0, ToS |-> 0]
      [] kind = "SampledIPV6" ->
             [kind |-> kind, Length |-> 0, Protocol |-> 0,
              SrcIP |-> <<0, 0, 0, 0, 0, 0, 0, 0, 0, 0, 0, 0, 0, 0, 0, 0>>,
              DstIP |-> <<0, 0, 0, 0, 0, 0, 0, 0, 0, 0, 0, 0, 0, 0, 0, 0>>,
              SrcPort |-> 0, DstPort |-> 0, TCPFlags |-> 0, ToS |-> 0]

\* A flow record decoder left its receiver as it found it.
Untouched(v) ==
    [f \in DOMAIN v \ {"body"} |-> v[f]] = ZeroFlow(v.kind)

\* A flow record decoder of fixed prefix n, called directly: TooShort exactly
\* below n bytes, and then nothing is decoded.
LeafTooShort(f, n) ==
    Returned(f) =>
        /\ ret.err = ErrTooShort <=> Len(buf) < n
        /\ ret.err = ErrTooShort => Untouched(ret.val)

\* A sample decoder of fixed prefix n, called directly: TooShort below n bytes
\* with the receiver untouched; from n bytes on its own fields are decoded and
\* a TooShort can only come out of the record loop.
AggregatorTooShort(f, n) ==
    Returned(f) =>
        /\ Len(buf) < n =>
              /\ ret.err = ErrTooShort
              /\ ret.heads = <<>>
              /\ ret.val.SequenceNumber = 0 /\ ret.val.Records = <<>>
        /\ Len(buf) >= n =>
              /\ ret.val.SequenceNumber = WireU32(0)
              /\ ret.err = ErrTooShort => ret.heads # <<>>
              /\ WireU32(n - 4) = 0 => ret.err = ErrNil

\* C4: every fixed-prefix decoder fails with TooShort, producing no value,
\* exactly when its input is shorter than its prefix (Header 28, DataFormat 8,
\* CounterSamples 12, CountersSampleExpanded 16, SampledHeader 16,
\* SampledEthernet 20, SampledIPV4 32, SampledIPV6 56); from that length on
\* none fails with TooShort on its own fixed fields.
C4_TooShortExactlyBelowPrefix ==
    /\ (fn = "Header.Parse" /\ pc # "call") =>
          IF Len(buf) < 28
          THEN pc = "done" /\ ret = [err |-> ErrTooShort, rest |-> NilSlice]
               /\ h = ZeroHeader
          ELSE /\ h.NumSamples = WireU32(24) /\ h.Version = WireU32(0)
               /\ pc = "parsed" => ret = [err |-> ErrNil, rest |-> Slice(28, Len(buf))]
    /\ Returned("DataFormat.Parse") =>
          /\ ret.err = ErrTooShort <=> Len(buf) < 8
          /\ ret.err = ErrTooShort => ret.df = ZeroDataFormat /\ ret.rest = NilSlice
    /\ AggregatorTooShort("CounterSamples.Parse", 12)
    /\ AggregatorTooShort("CountersSampleExpanded.Parse", 16)
    /\ LeafTooShort("SampledHeader.Parse", 16)
    /\ LeafTooShort("SampledEthernet.Parse", 20)
    /\ LeafTooShort("SampledIPV4.Parse", 32)
    /\ LeafTooShort("SampledIPV6.Parse", 56)

\* C4 witness: SampledIPV4.Parse on exactly 32 bytes decodes them.
C4_Witness ==
    /\ Returned("SampledIPV4.Parse")
    /\ Len(buf) = 32
    /\ ret.err = ErrNil
    /\ ret.val.ToS = WireU32(28)

\* C10: on a body of at least 56 bytes SampledIPV6.Parse decodes Length =
\* bytes 0..4, Protocol = 4..8, SrcIP = 8..24, DstIP = 24..40, SrcPort =
\* 40..44, DstPort = 44..48, TCPFlags = 48..52, ToS = 52..56, big-endian.
C10_IPv6Layout ==
    (Returned("SampledIPV6.Parse") /\ Len(buf) >= 56) =>
        /\ ret.err = ErrNil
        /\ ret.val.Length = WireU32(0)
        /\ ret.val.Protocol = WireU32(4)
        /\ ret.val.SrcIP = SubSeq(buf, 9, 24)
        /\ ret.val.DstIP = SubSeq(buf, 25, 40)
        /\ ret.val.SrcPort = WireU32(40)
        /\ ret.val.DstPort = WireU32(44)
        /\ ret.val.TCPFlags = WireU32(48)
        /\ ret.val.ToS = WireU32(52)

\* C6 as stated: ParseSample with a code other than 1, 2, 3 returns no sample
\* and no error, and the input less its first Length bytes, whatever the call.
C6_SkipAlways ==
    (Returned("DataFormat.ParseSample") /\ ~RecognizedSample(df0.Format)) =>
        /\ ret.val = NilValue
        /\ ret.err = ErrNil
        /\ ret.rest = Slice(df0.Length, Len(buf))

\* C6, amended: ParseSample with a code other than 1, 2, 3 (4 included), on an
\* input of at least Length bytes, returns no sample and no error and the
\* input less exactly its first Length bytes, whatever the body holds; on a
\* shorter input it fails with OutOfBounds.  In ParseSamples the envelope after
\* a skipped one is therefore read from the byte after the skipped body.
C6_SkipWithinBounds ==
    /\ (Returned("DataFormat.ParseSample") /\ ~RecognizedSample(df0.Format)) =>
          IF df0.Length <= Len(buf)
          THEN /\ ret.val = NilValue
               /\ ret.err = ErrNil
               /\ ret.rest = Slice(df0.Length, Len(buf))
          ELSE /\ ret.val = NilValue
               /\ ret.err = ErrOutOfBounds
               /\ ret.rest = NilSlice
    /\ (fn = "Header.Parse" /\ pc = "samples" /\ i > 0
            /\ ~RecognizedSample(dfs[i].Format)) =>
          /\ samples.list[i] = NilValue
          /\ data = Slice(iters[Len(iters)].data.lo + 8 + dfs[i].Length, Len(buf))

\* C6 witness: a direct call with code 4 skips a non-empty body that is
\* followed by more bytes.
C6_Witness ==
    /\ Returned("DataFormat.ParseSample")
    /\ df0.Format = CountersSampleExpandedType
    /\ df0.Length > 0
    /\ df0.Length < Len(buf)
    /\ ret.err = ErrNil
    /\ ret.val = NilValue

\* C7: ParseFlow with a code other than 1, 3, 4 (0 and 2 included) never fails
\* when Length does not exceed the input, and returns a SampledUnknown whose
\* Type is the envelope's code and whose Data equals, byte for byte, the
\* Length-byte body.
C7_UnknownFlowKeepsBody ==
    (Returned("DataFormat.ParseFlow")
        /\ df0.Format \notin {SampledHeaderType, SampledIPV4Type, SampledIPV6Type}
        /\ df0.Length <= Len(buf)) =>
        /\ ret.err = ErrNil
        /\ ret.val.kind = "SampledUnknown"
        /\ ret.val.Type = df0.Format
        /\ ret.val.Data = SubSeq(buf, 1, df0.Length)
        /\ ret.rest = Slice(df0.Length, Len(buf))

\* C7 witness: code 2 (sampled-ethernet) with a body shorter than the input.
C7_Witness ==
    /\ Returned("DataFormat.ParseFlow")
    /\ df0.Format = SampledEthernetType
    /\ df0.Length > 0
    /\ df0.Length < Len(buf)
    /\ ret.val.kind = "SampledUnknown"
    /\ Len(ret.val.Data) = df0.Length

\* The sample-level iteration whose record loop made iteration j of iters.
EnclosingSample(j) ==
    CHOOSE p \in 1..j :
        /\ iters[p].level = "sample"
        /\ \A q \in (p + 1)..j : iters[q].level = "record"

\* The end of the body of the envelope at the head of the slice hd.
BodyEnd(hd) == hd.lo + 8 + Uint32(hd, 4)

\* The envelope at the head of hd declares more bytes than hd holds after it.
Overruns(hd) == SLen(hd) >= 8 /\ Uint32(hd, 4) > SLen(hd) - 8

\* The fields of a decoded record are read from the bytes of its body, at the
\* offsets its decoder uses.
FieldsFromBody(r) ==
    CASE r.kind \in {"SampledUnknown", "CounterUnknown"} ->
             r.Data = SubSeq(buf, r.body.lo + 1, r.body.hi)
      [] r.kind = "SampledHeader" ->
             /\ 16 + Len(r.Header) <= SLen(r.body)
             /\ Len(r.Header) = WireU32(r.body.lo + 12)
             /\ r.Header = SubSeq(buf, r.body.lo + 17,
                                  r.body.lo + 16 + Len(r.Header))
             /\ r.Protocol = WireU32(r.body.lo)
      [] r.kind = "SampledIPV4" ->
             /\ 32 <= SLen(r.body)
             /\ r.SrcIP = SubSeq(buf, r.body.lo + 9, r.body.lo + 12)
             /\ r.DstIP = SubSeq(buf, r.body.lo + 13, r.body.lo + 16)
             /\ r.ToS = WireU32(r.body.lo + 28)
      [] r.kind = "SampledIPV6" ->
             /\ 56 <= SLen(r.body)
             /\ r.SrcIP = SubSeq(buf, r.body.lo + 9, r.body.lo + 24)
             /\ r.DstIP = SubSeq(buf, r.body.lo + 13, r.body.lo + 28)
             /\ r.ToS = WireU32(r.body.lo + 52)
      [] r.kind \in {"IfCounter", "EthernetCounter", "TokenringCounters",
                     "VGCounters", "VlanCounters", "Processor"} ->
             /\ CounterBlockLen(r.Type) <= SLen(r.body)
             /\ r.Data = SubSeq(buf, r.body.lo + 1,
                                r.body.lo + CounterBlockLen(r.Type))
      [] OTHER -> FALSE

\* Every record of the decoded sample s was decoded from the exact body of its
\* own record envelope, which lies inside the body of s.
RecordsWithinSample(s) ==
    \A n \in 1..Len(s.Records) :
        /\ s.Records[n].body.lo >= s.body.lo + PrefixOf(s.kind) + 8
        /\ s.Records[n].body.hi <= s.body.hi
        /\ SLen(s.Records[n].body) = WireU32(s.Records[n].body.lo - 4)
        /\ FieldsFromBody(s.Records[n])

\* A record loop run on the slice ending at end: every iteration saw a slice
\* ending there, and an envelope overrunning it ended the decode with
\* OutOfBounds.
LoopWithin(heads, end, err) ==
    \A n \in 1..Len(heads) :
        /\ heads[n].hi = end
        /\ Overruns(heads[n]) => n = Len(heads) /\ err = ErrOutOfBounds

\* C5: a nested decoder sees exactly the Length-byte body of its own envelope.
\* Every iteration of a sample's record loop works on a slice that ends where
\* the sample's body ends; a record envelope declaring more than is left of
\* that body fails the decode with OutOfBounds, however many bytes the
\* datagram holds after the sample; a decoder called through a dispatcher is
\* handed data[:Length]; and every field of a decoded record is read from the
\* body of its own envelope, which lies inside the body of its sample.
C5_DecoderSeesOnlyItsBody ==
    /\ \A j \in 1..Len(iters) :
          iters[j].level = "record" =>
              /\ iters[j].data.hi = BodyEnd(iters[EnclosingSample(j)].data)
              /\ iters[j].data.hi <= Len(buf)
              /\ Overruns(iters[j].data) =>
                    /\ j = Len(iters)
                    /\ pc = "done"
                    /\ ret.err = ErrOutOfBounds
                    /\ ret.samples = NilSamples
    /\ (SamplesReturned /\ ret.err = ErrNil) =>
          \A k \in 1..Len(ret.samples.list) :
              ret.samples.list[k] # NilValue =>
                  /\ SLen(ret.samples.list[k].body)
                         = WireU32(ret.samples.list[k].body.lo - 4)
                  /\ RecordsWithinSample(ret.samples.list[k])
    /\ Returned("DataFormat.ParseSample") =>
          /\ LoopWithin(ret.heads, df0.Length, ret.err)
          /\ (ret.err = ErrNil /\ ret.val # NilValue) =>
                /\ ret.val.body = Slice(0, df0.Length)
                /\ RecordsWithinSample(ret.val)
    /\ \A f \in {"DataFormat.ParseFlow", "DataFormat.ParseCounter"} :
          (Returned(f) /\ ret.err = ErrNil) =>
              /\ ret.val.body = Slice(0, df0.Length)
              /\ FieldsFromBody(ret.val)
    /\ \A f \in {"CounterSamples.Parse", "CountersSampleExpanded.Parse"} :
          Returned(f) =>
              /\ LoopWithin(ret.heads, Len(buf), ret.err)
              /\ ret.err = ErrNil => RecordsWithinSample(ret.val)

\* C5 witness: a record envelope inside a sample declares more bytes than the
\* sample's body has left, the datagram holds that many bytes after it, and the
\* decode has failed with OutOfBounds.
C5_Witness ==
    /\ SamplesReturned
    /\ ret.err = ErrOutOfBounds
    /\ iters # <<>>
    /\ iters[Len(iters)].level = "record"
    /\ Overruns(iters[Len(iters)].data)
    /\ BodyEnd(iters[Len(iters)].data) <= Len(buf)

\* The Records of the decoded counter sample s are the decodings of the
\* DeclaredRecords(s) record envelopes that follow its prefix, in wire order.
CounterRecordsInWireOrder(s) ==
    /\ Len(s.Records) = DeclaredRecords(s)
    /\ \A n \in 1..Len(s.Records) :
          /\ s.Records[n].body.lo =
                 8 + (IF n = 1 THEN s.body.lo + PrefixOf(s.kind)
                               ELSE s.Records[n - 1].body.hi)
          /\ s.Records[n].Type = WireU32(s.Records[n].body.lo - 8)
          /\ SLen(s.Records[n].body) = WireU32(s.Records[n].body.lo - 4)
          /\ s.Records[n].body.hi <= s.body.hi
          /\ s.Records[n].kind = (IF RecognizedCounter(s.Records[n].Type)
                                  THEN CounterKind(s.Records[n].Type)
                                  ELSE "CounterUnknown")
          /\ FieldsFromBody(s.Records[n])

\* C8: on success CounterSamples.Parse and CountersSampleExpanded.Parse, run
\* on a fresh value, leave Records with exactly as many entries as the record
\* count of the body declares (the u32 at bytes 8..12, respectively 12..16);
\* the n-th entry is the decoding of the n-th record envelope in wire order,
\* and a record with an unrecognized counter code is kept as a CounterUnknown
\* carrying that code and its body.
C8_CounterRecordsComplete ==
    /\ (Returned("CounterSamples.Parse") /\ ret.err = ErrNil) =>
          /\ ret.val.kind = "CounterSamples"
          /\ ret.val.body = Input
          /\ Len(ret.val.Records) = WireU32(8)
          /\ CounterRecordsInWireOrder(ret.val)
    /\ (Returned("CountersSampleExpanded.Parse") /\ ret.err = ErrNil) =>
          /\ ret.val.kind = "CountersSampleExpanded"
          /\ ret.val.body = Input
          /\ Len(ret.val.Records) = WireU32(12)
          /\ CounterRecordsInWireOrder(ret.val)
    /\ (SamplesReturned /\ ret.err = ErrNil) =>
          \A k \in 1..Len(ret.samples.list) :
              ret.samples.list[k].kind = "CounterSamples" =>
                  CounterRecordsInWireOrder(ret.samples.list[k])

\* C8 witness: a counters-sample-expanded body of two records, an unrecognized
\* code followed by a recognized one, has been decoded.
C8_Witness ==
    /\ Returned("CountersSampleExpanded.Parse")
    /\ ret.err = ErrNil
    /\ Len(ret.val.Records) = 2
    /\ ret.val.Records[1].kind = "CounterUnknown"
    /\ ret.val.Records[1].Type = 9
    /\ ret.val.Records[2].kind = "VlanCounters"

\* The heads of the iterations of one run lie at least an envelope apart, inside
\* the input, so there are no more of them than envelopes fit after first.
EnvelopeApart(heads, first) ==
    /\ \A n \in 1..Len(heads) :
          /\ heads[n].lo >= first + 8 * (n - 1)
          /\ heads[n].lo <= heads[n].hi
          /\ heads[n].hi <= Len(buf)
    /\ \A n \in 1..(Len(heads) - 1) :
          /\ heads[n + 1].lo >= heads[n].lo + 8
          /\ heads[n + 1].hi = heads[n].hi =>
                SLen(heads[n + 1]) <= SLen(heads[n]) - 8
    /\ heads # <<>> => 8 * Len(heads) <= Len(buf) - first + 8

\* C9: the loops of ParseSamples and of the sample decoders are bounded by the
\* input, not by the declared counts.  Every iteration that does not fail
\* leaves its loop a slice at least 8 bytes shorter, with the same end; the
\* iterations of the driver and of the record loops it runs start at least 8
\* bytes apart inside the buffer, so that with the 28-byte header read there
\* are at most (len - 28) / 8 + 1 of them, whatever NumSamples and the record
\* counts say; and the driver has then returned or still holds a slice of the
\* buffer from which a further iteration takes 8 bytes or fails.
C9_IterationsBoundedByBuffer ==
    /\ EnvelopeApart([n \in 1..Len(iters) |-> iters[n].data], 28)
    /\ \A n \in 1..Len(iters) :
          iters[n].level = "sample" => iters[n].data.hi = Len(buf)
    /\ pc = "samples" =>
          /\ data.hi = Len(buf)
          /\ data.lo <= data.hi
          /\ data.lo >= 28 + 8 * i
          /\ i <= h.NumSamples
          /\ iters # <<>> => data.lo >= iters[Len(iters)].data.lo + 8
          /\ Len(iters) >= i
    /\ (fn = "Header.Parse" /\ pc = "done") => 8 * i <= Len(buf)
    /\ Returned("CounterSamples.Parse") => EnvelopeApart(ret.heads, 12)
    /\ Returned("CountersSampleExpanded.Parse") => EnvelopeApart(ret.heads, 16)
    /\ Returned("DataFormat.ParseSample") => EnvelopeApart(ret.heads, 12)

\* C9 witness: a datagram announcing Huge samples, one of them with records,
\* has been decoded up to the end of the buffer, where the driver stopped.
C9_Witness ==
    /\ SamplesReturned
    /\ h.NumSamples = Huge
    /\ ret.err = ErrTooShort
    /\ i >= 2
    /\ \E n \in 1..Len(iters) : iters[n].level = "record"
    /\ SLen(data) = 0

\* The header length the first byte of the input declares, in bytes.
IHL == 4 * (buf[1] % 16)

\* C11: SampledIPV4.ParseFromIPHeader fails with OutOfBounds on fewer than 20
\* bytes; otherwise it stores SrcIP = data[12..16], DstIP = data[16..20] and
\* Protocol = data[9]; for TCP (6) and UDP (17) it fails with OutOfBounds when
\* the input is shorter than IHL + 4 and otherwise stores the big-endian
\* 16-bit ports found at IHL and IHL + 2; for any other protocol it succeeds
\* with both ports zero; and it fails in no other case.
C11_IPHeaderContract ==
    Returned("SampledIPV4.ParseFromIPHeader") =>
        IF Len(buf) < 20
        THEN ret.err = ErrOutOfBounds
        ELSE /\ ret.val.SrcIP = SubSeq(buf, 13, 16)
             /\ ret.val.DstIP = SubSeq(buf, 17, 20)
             /\ ret.val.Protocol = buf[10]
             /\ IF buf[10] \in {6, 17}
                THEN IF Len(buf) < IHL + 4
                     THEN ret.err = ErrOutOfBounds
                     ELSE /\ ret.err = ErrNil
                          /\ ret.val.SrcPort = buf[IHL + 1] * 256 + buf[IHL + 2]
                          /\ ret.val.DstPort = buf[IHL + 3] * 256 + buf[IHL + 4]
                ELSE /\ ret.err = ErrNil
                     /\ ret.val.SrcPort = 0
                     /\ ret.val.DstPort = 0

\* The bytes the decoded sampled-header captured: buf[16 .. 16 + Captured].
Captured == WireU32(12)

\* Byte k (from 0) of the captured bytes.
CapturedByte(k) == buf[16 + k + 1]

\* The offset of the IP header in the captured bytes, by the header protocol
\* and the ethertype at bytes 12..14; -1 when it cannot be told.
IPOffset ==
    CASE WireU32(0) = 11 -> 0
      [] WireU32(0) = 1 /\ Captured >= 14 ->
             CASE CapturedByte(12) = 129 /\ CapturedByte(13) = 0 -> 18
               [] CapturedByte(12) = 136 /\ CapturedByte(13) = 168 -> 22
               [] OTHER -> 14
      [] OTHER -> -1

\* ParseFromIPHeader succeeds on the captured bytes from offset o.
IPHeaderParses(o) ==
    /\ Captured - o >= 20
    /\ CapturedByte(o + 9) \in {6, 17} =>
          /\ 4 * (CapturedByte(o) % 16) >= 20
          /\ Captured - o >= 4 * (CapturedByte(o) % 16) + 4

\* What ParseFromIPHeader stores from the captured bytes at offset o.
IPFieldsAt(v, o) ==
    /\ v.kind = "SampledIPV4"
    /\ v.SrcIP = SubSeq(buf, 16 + o + 13, 16 + o + 16)
    /\ v.DstIP = SubSeq(buf, 16 + o + 17, 16 + o + 20)
    /\ v.Protocol = CapturedByte(o + 9)
    /\ v.Length = 0 /\ v.TCPFlags = 0 /\ v.ToS = 0
    /\ IF CapturedByte(o + 9) \in {6, 17}
       THEN /\ v.SrcPort = 256 * CapturedByte(o + 4 * (CapturedByte(o) % 16))
                             + CapturedByte(o + 4 * (CapturedByte(o) % 16) + 1)
            /\ v.DstPort = 256 * CapturedByte(o + 4 * (CapturedByte(o) % 16) + 2)
                             + CapturedByte(o + 4 * (CapturedByte(o) % 16) + 3)
       ELSE v.SrcPort = 0 /\ v.DstPort = 0
    /\ v.body = Slice(16 + o, 16 + Captured)

\* C12: SampledHeader.SampledIPv4() gives ParseFromIPHeader of the captured
\* bytes from offset 18 for an Ethernet capture (Protocol 1) with ethertype
\* 0x8100, from 22 with 0x88a8, from 14 with any other ethertype, and from 0
\* for Protocol 11; it gives nil, reading nothing outside the captured bytes,
\* when they are too short for a step of this, when ParseFromIPHeader fails
\* and when Protocol is neither 1 nor 11.
C12_SampledIPv4Offsets ==
    (fn = "SampledHeader.SampledIPv4" /\ pc = "done" /\ ret.err = ErrNil) =>
        /\ Len(ret.val.Header) = Captured
        /\ IF IPOffset >= 0 /\ IPHeaderParses(IPOffset)
           THEN IPFieldsAt(ret.ip, IPOffset)
           ELSE ret.ip = NilValue

\* C12 witness: an 802.1Q frame carrying TCP was captured whole and its
\* addresses and ports were derived from offset 18.
C12_Witness ==
    /\ fn = "SampledHeader.SampledIPv4" /\ pc = "done" /\ ret.err = ErrNil
    /\ ret.val.Protocol = 1
    /\ Captured >= 42
    /\ CapturedByte(12) = 129 /\ CapturedByte(13) = 0
    /\ ret.ip # NilValue
    /\ ret.ip.body.lo = 16 + 18
    /\ ret.ip.Protocol = 6
    /\ ret.ip.SrcPort > 0

\* C15: a flow record returned by DataFormat.ParseFlow reports through
\* FlowType() the format code of the envelope it was decoded from: 1 for a
\* SampledHeader, 3 for a SampledIPV4, 4 for a SampledIPV6 and the envelope's
\* code for a SampledUnknown, so that records decoded from distinct codes
\* never report the same FlowType().
C15_FlowTypeIsEnvelopeCode ==
    (Returned("DataFormat.ParseFlow") /\ ret.err = ErrNil) =>
        /\ ret.flowType = df0.Format
        /\ ret.val.kind = "SampledHeader" => ret.flowType = 1
        /\ ret.val.kind = "SampledIPV4" => ret.flowType = 3
        /\ ret.val.kind = "SampledIPV6" => ret.flowType = 4
        /\ ret.val.kind = "SampledUnknown" => ret.flowType = ret.val.Type

\* The rank of a level name handed to LoggerSetLevel in the order
\* debug < info < warn < error, whatever its case.
SetRank(levelStr) ==
    CASE levelStr = "debug" -> 0
      [] levelStr = "info" -> 1
      [] levelStr = "WARN" -> 2
      [] levelStr = "error" -> 3

\* The rank of the severity a logging method logs at, and its name.
MethodRank(method) ==
    CASE method = "Debug" -> 0
      [] method = "Info" -> 1
      [] method = "Warn" -> 2
      [] method \in {"Error", "Crit"} -> 3

SeverityName(method) ==
    CASE method = "Debug" -> "debug"
      [] method = "Info" -> "info"
      [] method = "Warn" -> "warn"
      [] method \in {"Error", "Crit"} -> "error"

\* The last logging call delivered its message exactly once to every handler
\* added on the way to its context, at its severity, and to nothing else but
\* the default backend.
DeliveredToAll(method) ==
    /\ \A f \in made[emitted.ctx].handlers :
          Cardinality({k \in 1..Len(emitted.to) : emitted.to[k].fn = f}) = 1
    /\ \A k \in 1..Len(emitted.to) :
          /\ emitted.to[k].fn \in made[emitted.ctx].handlers \cup {0}
          /\ emitted.to[k].msg = "m"
          /\ emitted.to[k].level = SeverityName(method)

\* C13: for a context whose level was last set with LoggerSetLevel(ctx, L), a
\* logger from LoggerWContext delivers a message to every handler registered
\* with LoggerAddHandler exactly once when its severity is at or above L
\* (debug < info < warn < error, Crit logging at error) and to no handler when
\* it is below L, in whatever order handlers were added and the level was set;
\* and LoggerDebugFunc runs its function only when L is debug.
C13_LeveledDelivery ==
    (fn = "log" /\ emitted # NoReturn /\ made[emitted.ctx].set # "") =>
        /\ emitted.op \in {"Debug", "Info", "Warn", "Error", "Crit"} =>
              IF MethodRank(emitted.op) >= SetRank(made[emitted.ctx].set)
              THEN DeliveredToAll(emitted.op)
              ELSE emitted.to = <<>>
        /\ emitted.op = "DebugFunc" =>
              /\ emitted.ran => SetRank(made[emitted.ctx].set) = 0
              /\ emitted.to # <<>> => emitted.ran /\ DeliveredToAll("Debug")

\* C13 witness: a handler was added, the level was set to warn, a second
\* handler was added, and Warn reached both handlers and the backend.
C13_Witness ==
    /\ fn = "log" /\ emitted # NoReturn
    /\ emitted.op = "Warn" /\ emitted.ctx = 4
    /\ made[4].set = "WARN"
    /\ made[3].set = "WARN" /\ made[3].handlers = {2}
    /\ made[4].handlers = {2, 4}
    /\ Len(emitted.to) = 3

\* C14: no call of AddToLogContext, LoggerSetLevel, LoggerAddHandler or
\* LoggerNewRequest (nor any other call) changes a context that exists: after
\* any sequence of calls every context is the value it was made as, a logger
\* built from it emits to the same handlers, at the same level, with the same
\* additional fields as when it was made, and LoggerGetLevel returns the same
\* name.
C14_DerivationLeavesOriginal ==
    fn = "log" =>
        \A c \in 1..Len(ctxs) :
            /\ ctxs[c] = made[c].ctx
            /\ Observed(Heap(states, levels), ctxs[c]) = made[c].seen

\* C14 witness: a context with a handler and a field had its level set to
\* error in a derived context, and Info on the original was still delivered,
\* with the field, to the handler.
C14_Witness ==
    /\ fn = "log" /\ emitted # NoReturn
    /\ emitted.op = "Info" /\ emitted.ctx = 3
    /\ Len(ctxs) = 4
    /\ made[4].set = "error"
    /\ made[3].set = "" /\ made[3].handlers = {2}
    /\ ctxs[3].attrs # <<>>
    /\ Len(emitted.to) = 2
    /\ emitted.to[2].fn = 2
    /\ emitted.to[2].attrs["k"] = "v"

\* C16: once SetProcessName(n) has returned, every logger context created
\* afterwards uses a default backend that was built after ProcessName became
\* n, and the default backend is built at most once between two
\* SetProcessName calls, also when goroutines are inside getDefaultCore
\* while SetProcessName runs.
C16_BackendRebuiltOnce ==
    fn = "once" =>
        /\ \A g \in 1..Len(gs) :
              gs[g].pc = "created" =>
                  /\ ~gs[g].got.nil
                  /\ gs[g].got.name >= gs[g].after
        /\ setter.builds <= 1

====
